---------------------------- MODULE Spec2Model ----------------------------
(***************************************************************************)
(* Model of the somars-vision capture / detect / publish pipeline          *)
(* (main.py) and of its telemetry encoder / decoder (telemetry.py).        *)
(*                                                                         *)
(* Spec      the threads of main.py with one camera: the coordinator       *)
(*           (module level code), run_tracker_in_thread, run_cam_in_thread,*)
(*           the two capacity-1 queues between them, the external          *)
(*           interrupt.                                                    *)
(* LiveSpec  Spec with weak fairness on every thread's step.               *)
(* NoRaiseSpec  LiveSpec with a detector that never raises.                *)
(* TelSpec   telemetry.add_results and send_telemetry_data on the results  *)
(*           of one frame after another.                                   *)
(* SnapSpec  the snapshot timer of run_tracker_in_thread against the clock.*)
(* SigSpec   telemetry.get_signal draining the inbound connection.         *)
(* TelLiveSpec  TelSpec with a detection thread that keeps running.        *)
(* PairSpec  the threads of two cameras side by side, headless.            *)
(* EnsSpec   ensure_mavlink called by two detection threads at once.       *)
(* StallSpec NoRaiseSpec with a device whose read may never return.        *)
(* FpsSpec   the frame rate run_tracker_in_thread draws on a frame.        *)
(* NameSpec  telemetry.name_bytes and the names of the fields sent.        *)
(* StampSpec the timestamp of the fields send_telemetry_data sends.        *)
(* HandlerSpec  the calls made on one CameraHandler (src/utils/camera.py). *)
(* MapSpec   mapping.initialize and generate_map called by two threads.    *)
(***************************************************************************)
EXTENDS Integers, Sequences, FiniteSets, TLC

\* ------------------------------------------------------------------ bounds
\* frames a device delivers before its stream ends (a file) at the latest
MaxFrames == 3
\* external interrupts (SIGTERM / ^C) delivered in one run
MaxInterrupts == 2

VARIABLES
    \* ---- main.py, configuration
    cameras           \* the list of camera indexes (main.py:27)

\* the cameras of the configuration
CamsOf(list) == {list[i] : i \in DOMAIN list}
Cams == CamsOf(cameras)

\* main.py:27 lists five camera indexes; the pipelines are identical, and
\* the model runs the first of them, or the first two where a property is
\* about one camera's threads next to another's.
OneCamera == <<0>>
TwoCameras == <<0, 1>>

\* Python's None where a frame is expected; frames are numbered from 1
NoFrame == 0

VARIABLES
    \* ---- main.py, module level
    is_interrupted,   \* the shared flag (main.py:47)
    enable_mjpeg,     \* main.py:37
    enable_display,   \* main.py:39
    server,           \* MjpegServer: "none" | "running" | "stopped"
    windows,          \* OpenCV windows: "none" | "open" | "destroyed"
    mainpc,           \* position of the main thread
    mainIdx,          \* index into cameras of the loop the main thread is in
    shown,            \* [c] frame the main thread took from display_queues[c]
    signals,          \* number of interrupts delivered so far
    sigpos,           \* history: were all threads started when the last interrupt came
    \* ---- run_cam_in_thread, per camera
    campc,            \* position of the capture thread
    nread,            \* frames read from the device so far
    camframe,         \* local `frame` of the capture thread
    released,         \* number of video.release() calls
    readfailed,       \* a read returned ret = False
    \* ---- run_tracker_in_thread, per camera
    trkpc,            \* position of the detection thread
    q,                \* Queue(maxsize=1) between capture and detection
    frame,            \* local `frame` of the detection thread
    out_q,            \* display_queues[c], Queue(maxsize=1)
    stream,           \* the one Stream object: last frame given to set_frame
    \* ---- history (not read by the program)
    published,        \* [c] last frame whose put_nowait into q succeeded
    evicted,          \* [c] frames removed from q by the producer
    dpublished,       \* [c] last frame whose put_nowait into out_q succeeded
    devicted,         \* [c] frames removed from out_q by the producer
    fullraised,       \* queues whose put_nowait raised Full: subset of Cams \X {"q","out_q"}
    latetakes,        \* [c] frames the detection thread took from q with the flag set
    lateputs,         \* [c] frames the capture thread put into q with the flag set
    lateproc,         \* [c] frames taken with the flag set that went on to telemetry / stream
    \* ---- telemetry.py, outbound (add_results, send_telemetry_data)
    results,          \* the list of Results given to add_results: boxes per result
    mavlink_conn,     \* _mavlink_conn (telemetry.py:17)
    telpc,            \* position inside add_results / send_telemetry_data
    best_info,        \* local best_info of add_results
    cls_i,            \* loop index i of add_results' second loop
    fld,              \* next field send_telemetry_data sends (1..4)
    calls,            \* history: arguments of the send_telemetry_data calls of this frame
    sent,             \* history: messages handed to the connection for this frame
    outcome,          \* history: how each call ended: "sent" | "noconn" | "raised"
    \* ---- run_tracker_in_thread, the snapshot timer
    now,              \* time.time()
    snapshot_time,    \* [c] local snapshot_time
    snappc,           \* [c] position: "start" | "frame" | "submit" | "reset"
    lastsubmit,       \* history: [c] time of the last snapshotter.submit, -1 if none
    prevsubmit,       \* history: [c] time of the submit before that, -1 if none
    \* ---- telemetry.py, inbound (get_signal)
    mavlink_recv_conn, \* _mavlink_recv_conn (telemetry.py:18)
    inbox,            \* STATUSTEXT messages waiting on the connection
    sigpc,            \* position inside get_signal: "idle" | "drain" | "done"
    newest,           \* local newest of get_signal
    sigresult,        \* value the last get_signal returned
    drained,          \* history: messages recv_match returned during this call
    sigend,           \* history: how the call ended: "ok" | "noconn" | "raised"
    \* ---- telemetry.py, send_telemetry_data called by several detection threads
    enspc,            \* [t] position inside send_telemetry_data / ensure_mavlink
    newconn,          \* [t] the object mavutil.mavlink_connection returned to thread t
    conn,             \* [t] local conn of send_telemetry_data
    nsends,           \* [t] send_telemetry_data calls thread t has made
    created,          \* history: connection objects created so far
    aftersuccess,     \* history: [t] the call of t began after a connection had been stored
    used,             \* history: [t] connection objects thread t has sent on
    \* ---- run_tracker_in_thread, the rate drawn on the frame (main.py:160-161)
    start_time,       \* capture time of the frame
    end_time,         \* time the processing of the frame ended
    elapsed,          \* local elapsed
    fps,              \* local fps, in hundredths
    fpspc,            \* position: "idle" | "elapsed" | "rate" | "done" | "raised"
    zerodiv,          \* a ZeroDivisionError was raised
    \* ---- telemetry.py, name_bytes and the fields of send_telemetry_data
    name_in,          \* argument s of a name_bytes call
    name_out,         \* what that call returned
    namepc,           \* position: "idle" | "input" | "done"
    clock_ms,         \* int(time.time() * 1000)
    time_boot_ms,     \* local time_boot_ms of send_telemetry_data
    obj_cls,          \* argument obj_cls of the call under way
    send_fld,         \* next field the call sends (1..4)
    sendpc,           \* position: "off" | "idle" | "ensure" | "send"
    wire,             \* history: the messages handed to the connection
    taken,            \* history: [c] the clock when the call for class c read it
    ticks,            \* history: milliseconds the clock has moved
    sentcls,          \* history: classes whose call has returned
    \* ---- src/utils/camera.py, one CameraHandler
    cap,              \* self.cap: 0 for None, else the VideoCapture object
    is_opened,        \* self.is_opened
    capdev,           \* [k] VideoCapture object k holds its device open
    ncaps,            \* VideoCapture objects created so far
    hmeth,            \* history: the method called last
    hret,             \* history: what it returned
    touched,          \* history: calls it made on the VideoCapture object
    wasopen,          \* history: hstate when it was called
    hstate,           \* history: "never" | "failed" | "open" | "released"
    inwith,           \* the handler is the subject of a with-block
    \* ---- mapping.py
    node,             \* mapping.node
    initialized,      \* mapping.initialized
    lock,             \* mapping.lock
    mappc,            \* [t] position of thread t inside initialize / generate_map
    mapret,           \* [t] where initialize returns to
    mapcalls,         \* [t] calls thread t has made
    nodes,            \* history: Node objects created
    inits             \* history: [t] times thread t entered the with block of initialize

pipevars == <<is_interrupted, cameras, enable_mjpeg, enable_display, server, windows,
              mainpc, mainIdx, shown, signals, sigpos, campc, nread, camframe,
              released, readfailed, trkpc, q, frame, out_q, stream,
              published, evicted, dpublished, devicted, fullraised,
              latetakes, lateputs, lateproc>>

telvars == <<results, mavlink_conn, telpc, best_info, cls_i, fld, calls, sent, outcome>>

snapvars == <<now, snapshot_time, snappc, lastsubmit, prevsubmit>>

sigvars == <<mavlink_recv_conn, inbox, sigpc, newest, sigresult, drained, sigend>>

ensvars == <<enspc, newconn, conn, nsends, created, aftersuccess, used>>

fpsvars == <<start_time, end_time, elapsed, fps, fpspc, zerodiv>>

wirevars == <<name_in, name_out, namepc, clock_ms, time_boot_ms, obj_cls, send_fld, sendpc,
              wire, taken, ticks, sentcls>>

handlervars == <<cap, is_opened, capdev, ncaps, hmeth, hret, touched, wasopen, hstate, inwith>>

mapvars == <<node, initialized, lock, mappc, mapret, mapcalls, nodes, inits>>

purevars == <<fpsvars, wirevars, handlervars, mapvars>>

auxvars == <<telvars, snapvars, sigvars, ensvars, purevars>>

corevars == <<pipevars, telvars, snapvars, sigvars, ensvars>>

restvars == <<corevars, handlervars, mapvars>>

vars == <<pipevars, telvars, snapvars, sigvars, ensvars, purevars>>

\* ---------------------------------------------------------- queue.Queue
\* Queue(maxsize=1): every method runs under the queue's own mutex, so each
\* call is one atomic step.
QMaxSize == 1
\* mutant: the queue was built with room for two items
QFullOfTwo(qu) == Len(qu) >= QMaxSize + 1
QFull(qu) == Len(qu) >= QMaxSize
QEmpty(qu) == Len(qu) = 0
\* put_nowait: the queue after the call (unchanged when it raises Full)
QPutNowait(qu, x) == IF QFull(qu) THEN qu ELSE Append(qu, x)
\* mutant: the producer's eviction reads the head and leaves it in the queue
QPeekNowait(qu) == qu
\* get_nowait: the queue after the call (unchanged when it raises Empty)
QGetNowait(qu) == IF QEmpty(qu) THEN qu ELSE Tail(qu)

\* the item a non-blocking get would return (NoFrame when it raises Empty)
QItem(qu) == IF QEmpty(qu) THEN NoFrame ELSE Head(qu)

\* position of camera c in the list `cameras`
Last == Len(cameras)
\* Thread.is_alive() of a tracker / capture thread
TrackerAlive(c) == trkpc[c] \in {"start", "loop", "get", "track", "dfull", "dget", "dput", "join"}
CamAlive(c) == campc[c] \in {"read", "full", "evict", "put", "release"}
\* positions of the main thread inside the try block (main.py:223-256)
InTry == {"try", "show", "key", "alive", "sleep"}

\* ------------------------------------------------------------------ Init
\* The state when main.py reaches line 211: model loaded, the MJPEG server
\* started if enable_mjpeg, the display queues created, no thread started.
PipeInit ==
    /\ is_interrupted = FALSE
    /\ enable_mjpeg \in BOOLEAN
    /\ enable_display \in BOOLEAN
    /\ server = IF enable_mjpeg THEN "running" ELSE "none"
    /\ windows = "none"
    /\ mainpc = "spawn"
    /\ mainIdx = 1
    /\ shown = [c \in Cams |-> NoFrame]
    /\ signals = 0
    /\ sigpos = "none"
    /\ campc = [c \in Cams |-> "unstarted"]
    /\ nread = [c \in Cams |-> 0]
    /\ camframe = [c \in Cams |-> NoFrame]
    /\ released = [c \in Cams |-> 0]
    /\ readfailed = [c \in Cams |-> FALSE]
    /\ trkpc = [c \in Cams |-> "unstarted"]
    /\ q = [c \in Cams |-> <<>>]
    /\ frame = [c \in Cams |-> NoFrame]
    /\ out_q = [c \in Cams |-> <<>>]
    /\ stream = <<>>
    /\ published = [c \in Cams |-> NoFrame]
    /\ evicted = [c \in Cams |-> {}]
    /\ dpublished = [c \in Cams |-> NoFrame]
    /\ devicted = [c \in Cams |-> {}]
    /\ fullraised = {}
    /\ latetakes = [c \in Cams |-> 0]
    /\ lateputs = [c \in Cams |-> 0]
    /\ lateproc = [c \in Cams |-> 0]

mainvars == <<is_interrupted, cameras, enable_mjpeg, enable_display, server, windows,
              mainpc, mainIdx, shown, signals, sigpos>>
camvars == <<campc, nread, camframe, released, readfailed>>
trkvars == <<trkpc, frame, stream>>
latevars == <<latetakes, lateputs, lateproc>>
queuehist == <<published, evicted, dpublished, devicted, fullraised>>
histvars == <<queuehist, latevars>>

\* ------------------------------------------------- run_cam_in_thread(c, q)
\* mutant: the capture loop has no test of the flag
CamReadOkIgnoreFlag(c) ==
    /\ campc[c] = "read"
    /\ nread[c] < MaxFrames
    /\ nread' = [nread EXCEPT ![c] = @ + 1]
    /\ camframe' = [camframe EXCEPT ![c] = nread'[c]]
    /\ campc' = [campc EXCEPT ![c] = "full"]
    /\ UNCHANGED <<auxvars, released, readfailed, mainvars, trkvars, q, out_q, histvars>>

\* video.read() returns a frame; then the two exit tests of the loop head.
\* Frames are numbered up to MaxFrames; a frame read once the flag is set is
\* never published (the loop breaks), so it is read without a number.
CamReadOk(c) ==
    /\ campc[c] = "read"
    /\ nread[c] < MaxFrames \/ is_interrupted
    /\ nread' = [nread EXCEPT ![c] = IF @ < MaxFrames THEN @ + 1 ELSE @]
    /\ camframe' = [camframe EXCEPT ![c] = nread'[c]]
    /\ campc' = [campc EXCEPT ![c] = IF is_interrupted THEN "release" ELSE "full"]
    /\ UNCHANGED <<auxvars, released, readfailed, mainvars, trkvars, q, out_q, histvars>>

\* mutant: a failed read also requests the global shutdown
CamReadFailGlobal(c) ==
    /\ campc[c] = "read"
    /\ readfailed' = [readfailed EXCEPT ![c] = TRUE]
    /\ campc' = [campc EXCEPT ![c] = "release"]
    /\ is_interrupted' = TRUE
    /\ UNCHANGED <<auxvars, nread, camframe, released, cameras, enable_mjpeg, enable_display,
                   server, windows, mainpc, mainIdx, shown, signals, sigpos, trkvars, q, out_q,
                   histvars>>

\* video.read() returns ret = False: device never opened, disconnected, end of file.
CamReadFail(c) ==
    /\ campc[c] = "read"
    /\ readfailed' = [readfailed EXCEPT ![c] = TRUE]
    /\ campc' = [campc EXCEPT ![c] = "release"]
    /\ UNCHANGED <<auxvars, nread, camframe, released, mainvars, trkvars, q, out_q, histvars>>

\* mutant: the publish goes to put_nowait without the eviction
CamFullNoEvict(c) ==
    /\ campc[c] = "full"
    /\ campc' = [campc EXCEPT ![c] = "put"]
    /\ UNCHANGED <<auxvars, nread, camframe, released, readfailed, mainvars, trkvars, q, out_q, histvars>>

\* if q.full():
CamFull(c) ==
    /\ campc[c] = "full"
    /\ campc' = [campc EXCEPT ![c] = IF QFull(q[c]) THEN "evict" ELSE "put"]
    /\ UNCHANGED <<auxvars, nread, camframe, released, readfailed, mainvars, trkvars, q, out_q, histvars>>

\* try: q.get_nowait() except Empty: pass
CamEvict(c) ==
    /\ campc[c] = "evict"
    /\ q' = [q EXCEPT ![c] = QGetNowait(@)]
    /\ evicted' = [evicted EXCEPT ![c] = IF QEmpty(q[c]) THEN @ ELSE @ \cup {QItem(q[c])}]
    /\ campc' = [campc EXCEPT ![c] = "put"]
    /\ UNCHANGED <<auxvars, nread, camframe, released, readfailed, mainvars, trkvars, out_q,
                   published, dpublished, devicted, fullraised, latevars>>

\* try: q.put_nowait((frame.copy(), start_time)) except Full: pass
CamPut(c) ==
    /\ campc[c] = "put"
    /\ q' = [q EXCEPT ![c] = QPutNowait(@, camframe[c])]
    /\ fullraised' = IF QFull(q[c]) THEN fullraised \cup {<<c, "q">>} ELSE fullraised
    /\ published' = [published EXCEPT ![c] = camframe[c]]
    /\ lateputs' = [lateputs EXCEPT ![c] = IF is_interrupted THEN @ + 1 ELSE @]
    /\ campc' = [campc EXCEPT ![c] = "read"]
    /\ UNCHANGED <<auxvars, nread, camframe, released, readfailed, mainvars, trkvars, out_q,
                   evicted, dpublished, devicted, latetakes, lateproc>>

\* video.release(), then the thread ends
CamRelease(c) ==
    /\ campc[c] = "release"
    /\ released' = [released EXCEPT ![c] = @ + 1]
    /\ campc' = [campc EXCEPT ![c] = "done"]
    /\ UNCHANGED <<auxvars, nread, camframe, readfailed, mainvars, trkvars, q, out_q, histvars>>

\* ------------------------------ run_tracker_in_thread(c, stream, out_q)
\* q = Queue(maxsize=1); cam_thread.start()
TrkStart(c) ==
    /\ trkpc[c] = "start"
    /\ q' = [q EXCEPT ![c] = <<>>]
    /\ campc' = [campc EXCEPT ![c] = "read"]
    /\ trkpc' = [trkpc EXCEPT ![c] = "loop"]
    /\ UNCHANGED <<auxvars, nread, camframe, released, readfailed, mainvars, frame, stream, out_q, histvars>>

\* mutant: the loop condition tests the capture thread only
TrkLoopIgnoreFlag(c) ==
    /\ trkpc[c] = "loop"
    /\ trkpc' = [trkpc EXCEPT ![c] = IF CamAlive(c) THEN "get" ELSE "join"]
    /\ UNCHANGED <<auxvars, camvars, mainvars, frame, stream, q, out_q, histvars>>

\* while not is_interrupted and cam_thread.is_alive():
TrkLoop(c) ==
    /\ trkpc[c] = "loop"
    /\ trkpc' = [trkpc EXCEPT ![c] = IF ~is_interrupted /\ CamAlive(c) THEN "get" ELSE "join"]
    /\ UNCHANGED <<auxvars, camvars, mainvars, frame, stream, q, out_q, histvars>>

\* mutant: the frame is read from the queue and left in it
TrkGetKeep(c) ==
    /\ trkpc[c] = "get"
    /\ ~QEmpty(q[c])
    /\ frame' = [frame EXCEPT ![c] = Head(q[c])]
    /\ latetakes' = [latetakes EXCEPT ![c] = IF is_interrupted THEN @ + 1 ELSE @]
    /\ trkpc' = [trkpc EXCEPT ![c] = "track"]
    /\ UNCHANGED <<auxvars, camvars, mainvars, stream, q, out_q, queuehist, lateputs, lateproc>>

\* q.get(block=True, timeout=5) returns an item
TrkGet(c) ==
    /\ trkpc[c] = "get"
    /\ ~QEmpty(q[c])
    /\ frame' = [frame EXCEPT ![c] = Head(q[c])]
    /\ q' = [q EXCEPT ![c] = Tail(@)]
    /\ latetakes' = [latetakes EXCEPT ![c] = IF is_interrupted THEN @ + 1 ELSE @]
    /\ trkpc' = [trkpc EXCEPT ![c] = "track"]
    /\ UNCHANGED <<auxvars, camvars, mainvars, stream, out_q, queuehist, lateputs, lateproc>>

\* mutant: q.get(block=True) without a timeout waits on the empty queue
TrkGetBlocking(c) ==
    /\ trkpc[c] = "get"
    /\ QEmpty(q[c])
    /\ UNCHANGED <<auxvars, camvars, mainvars, trkvars, q, out_q, histvars>>

\* q.get(block=True, timeout=5) raises Empty after the timeout: continue
TrkGetTimeout(c) ==
    /\ trkpc[c] = "get"
    /\ QEmpty(q[c])
    /\ trkpc' = [trkpc EXCEPT ![c] = "loop"]
    /\ UNCHANGED <<auxvars, camvars, mainvars, frame, stream, q, out_q, histvars>>

\* mutant: the frame goes to the display queue whatever enable_display is
TrkProcessAlwaysDisplay(c) ==
    /\ trkpc[c] = "track"
    /\ stream' = IF enable_mjpeg THEN <<c, frame[c]>> ELSE stream
    /\ lateproc' = [lateproc EXCEPT ![c] = IF latetakes[c] > 0 THEN @ + 1 ELSE @]
    /\ trkpc' = [trkpc EXCEPT ![c] = "dfull"]
    /\ UNCHANGED <<auxvars, camvars, mainvars, frame, q, out_q, queuehist, latetakes, lateputs>>

\* model.track, plot, telemetry.add_results, the snapshot test, the HUD,
\* stream.set_frame (main.py:145-169); telemetry and the snapshot timer keep
\* their state in TelSpec and SnapSpec.
TrkProcess(c) ==
    /\ trkpc[c] = "track"
    /\ stream' = IF enable_mjpeg THEN <<c, frame[c]>> ELSE stream
    /\ lateproc' = [lateproc EXCEPT ![c] = IF latetakes[c] > 0 THEN @ + 1 ELSE @]
    /\ trkpc' = [trkpc EXCEPT ![c] = IF enable_display THEN "dfull" ELSE "loop"]
    /\ UNCHANGED <<auxvars, camvars, mainvars, frame, q, out_q, queuehist, latetakes, lateputs>>

\* model.track (or another call of the loop body) raises: nothing in
\* run_tracker_in_thread catches it, the thread ends with the exception.
TrkRaise(c) ==
    /\ trkpc[c] = "track"
    /\ trkpc' = [trkpc EXCEPT ![c] = "crashed"]
    /\ UNCHANGED <<auxvars, camvars, mainvars, frame, stream, q, out_q, histvars>>

\* if out_q.full():
TrkDisplayFull(c) ==
    /\ trkpc[c] = "dfull"
    /\ trkpc' = [trkpc EXCEPT ![c] = IF QFull(out_q[c]) THEN "dget" ELSE "dput"]
    /\ UNCHANGED <<auxvars, camvars, mainvars, frame, stream, q, out_q, histvars>>

\* try: out_q.get_nowait() except Empty: pass
TrkDisplayEvict(c) ==
    /\ trkpc[c] = "dget"
    /\ out_q' = [out_q EXCEPT ![c] = QGetNowait(@)]
    /\ devicted' = [devicted EXCEPT ![c] = IF QEmpty(out_q[c]) THEN @ ELSE @ \cup {QItem(out_q[c])}]
    /\ trkpc' = [trkpc EXCEPT ![c] = "dput"]
    /\ UNCHANGED <<auxvars, camvars, mainvars, frame, stream, q, published, evicted, dpublished, fullraised,
                   latevars>>

\* try: out_q.put_nowait(res_plotted) except Full: pass
TrkDisplayPut(c) ==
    /\ trkpc[c] = "dput"
    /\ out_q' = [out_q EXCEPT ![c] = QPutNowait(@, frame[c])]
    /\ fullraised' = IF QFull(out_q[c]) THEN fullraised \cup {<<c, "out_q">>} ELSE fullraised
    /\ dpublished' = [dpublished EXCEPT ![c] = frame[c]]
    /\ trkpc' = [trkpc EXCEPT ![c] = "loop"]
    /\ UNCHANGED <<auxvars, camvars, mainvars, frame, stream, q, published, evicted, devicted, latevars>>

\* cam_thread.join(), then the thread ends
TrkJoin(c) ==
    /\ trkpc[c] = "join"
    /\ ~CamAlive(c)
    /\ trkpc' = [trkpc EXCEPT ![c] = "done"]
    /\ UNCHANGED <<auxvars, camvars, mainvars, frame, stream, q, out_q, histvars>>

\* ------------------------------------------------ main.py, module level
camtrkvars == <<camvars, frame, stream, q, published, evicted, dpublished, fullraised, latevars>>

\* for c in cameras: thread = Thread(target=run_tracker_in_thread, ...); thread.start()
MainSpawn ==
    /\ mainpc = "spawn"
    /\ trkpc' = [trkpc EXCEPT ![cameras[mainIdx]] = "start"]
    /\ IF mainIdx = Last
         THEN mainpc' = "snapshot_thread" /\ mainIdx' = 1
         ELSE mainpc' = mainpc /\ mainIdx' = mainIdx + 1
    /\ UNCHANGED <<auxvars, is_interrupted, cameras, enable_mjpeg, enable_display, server, windows, shown,
                   signals, sigpos, camtrkvars, out_q, devicted>>

\* snapshot_thread = Thread(...); snapshot_thread.start(); then the try block is entered
MainSnapshotThread ==
    /\ mainpc = "snapshot_thread"
    /\ mainpc' = "try"
    /\ UNCHANGED <<auxvars, is_interrupted, cameras, enable_mjpeg, enable_display, server, windows, mainIdx,
                   shown, signals, sigpos, trkpc, camtrkvars, out_q, devicted>>

\* if enable_display: create the windows, enter the display loop
\* else: while True: time.sleep(1)
MainTry ==
    /\ mainpc = "try"
    /\ IF enable_display
         THEN windows' = "open" /\ mainpc' = "show"
         ELSE windows' = windows /\ mainpc' = "sleep"
    /\ mainIdx' = 1
    /\ UNCHANGED <<auxvars, is_interrupted, cameras, enable_mjpeg, enable_display, server, shown, signals, sigpos,
                   trkpc, camtrkvars, out_q, devicted>>

\* for c in cameras: try: frame = display_queues[c].get_nowait() except Empty: frame = NoFrame
MainShow ==
    /\ mainpc = "show"
    /\ LET c == cameras[mainIdx] IN
         /\ shown' = [shown EXCEPT ![c] = QItem(out_q[c])]
         /\ out_q' = [out_q EXCEPT ![c] = QGetNowait(@)]
    /\ IF mainIdx = Last
         THEN mainpc' = "key" /\ mainIdx' = 1
         ELSE mainpc' = mainpc /\ mainIdx' = mainIdx + 1
    /\ UNCHANGED <<auxvars, is_interrupted, cameras, enable_mjpeg, enable_display, server, windows, signals, sigpos,
                   trkpc, camtrkvars, devicted>>

\* key = cv2.waitKey(1): 'q' or ESC pressed
MainKeyQuit ==
    /\ mainpc = "key"
    /\ is_interrupted' = TRUE
    /\ mainpc' = "join"
    /\ mainIdx' = 1
    /\ UNCHANGED <<auxvars, cameras, enable_mjpeg, enable_display, server, windows, shown, signals, sigpos,
                   trkpc, camtrkvars, out_q, devicted>>

\* key = cv2.waitKey(1): no quit key
MainKeyNone ==
    /\ mainpc = "key"
    /\ mainpc' = "alive"
    /\ UNCHANGED <<auxvars, is_interrupted, cameras, enable_mjpeg, enable_display, server, windows, mainIdx,
                   shown, signals, sigpos, trkpc, camtrkvars, out_q, devicted>>

\* if all(not t.is_alive() for t in threads): break; else time.sleep(0.001)
MainAlive ==
    /\ mainpc = "alive"
    /\ mainpc' = IF \A c \in Cams : ~TrackerAlive(c) THEN "join" ELSE "show"
    /\ mainIdx' = 1
    /\ UNCHANGED <<auxvars, is_interrupted, cameras, enable_mjpeg, enable_display, server, windows,
                   shown, signals, sigpos, trkpc, camtrkvars, out_q, devicted>>

\* SIGTERM (handle_signal raises SystemExit in the main thread) or ^C
\* (KeyboardInterrupt): caught by the except clause only inside the try
\* block; anywhere else it ends the main thread.
Interrupt ==
    /\ signals < MaxInterrupts
    /\ mainpc \notin {"done", "exited"}
    /\ signals' = signals + 1
    /\ sigpos' = IF \A c \in Cams : campc[c] # "unstarted" THEN "started" ELSE "early"
    /\ mainpc' = IF mainpc \in InTry THEN "handler" ELSE "exited"
    /\ UNCHANGED <<auxvars, is_interrupted, cameras, enable_mjpeg, enable_display, server, windows, mainIdx,
                   shown, trkpc, camtrkvars, out_q, devicted>>

\* except (KeyboardInterrupt, SystemExit): print(...); is_interrupted = True
MainHandler ==
    /\ mainpc = "handler"
    /\ is_interrupted' = TRUE
    /\ mainpc' = "join"
    /\ mainIdx' = 1
    /\ UNCHANGED <<auxvars, cameras, enable_mjpeg, enable_display, server, windows, shown, signals, sigpos,
                   trkpc, camtrkvars, out_q, devicted>>

\* for thread in threads: thread.join()
MainJoin ==
    /\ mainpc = "join"
    /\ ~TrackerAlive(cameras[mainIdx])
    /\ IF mainIdx = Last
         THEN mainpc' = "stop_server" /\ mainIdx' = 1
         ELSE mainpc' = mainpc /\ mainIdx' = mainIdx + 1
    /\ UNCHANGED <<auxvars, is_interrupted, cameras, enable_mjpeg, enable_display, server, windows, shown,
                   signals, sigpos, trkpc, camtrkvars, out_q, devicted>>

\* if (enable_mjpeg): server.stop()
MainStopServer ==
    /\ mainpc = "stop_server"
    /\ server' = IF enable_mjpeg THEN "stopped" ELSE server
    /\ mainpc' = "destroy"
    /\ UNCHANGED <<auxvars, is_interrupted, cameras, enable_mjpeg, enable_display, windows, mainIdx, shown,
                   signals, sigpos, trkpc, camtrkvars, out_q, devicted>>

\* if enable_display: cv2.destroyAllWindows(); the module ends
MainDestroy ==
    /\ mainpc = "destroy"
    /\ windows' = IF enable_display THEN "destroyed" ELSE windows
    /\ mainpc' = "done"
    /\ UNCHANGED <<auxvars, is_interrupted, cameras, enable_mjpeg, enable_display, server, mainIdx, shown,
                   signals, sigpos, trkpc, camtrkvars, out_q, devicted>>

\* ---------------------------------------------- telemetry.py, outbound
\* Confidences are in tenths: MIN_CONFIDENCE = 0.5 is 5.
MIN_CONFIDENCE == 5
\* mutant: only one class is tracked
OneClass == 2 - 1
NUM_CLASSES == 2
\* class ids and confidences (tenths) the detector reports
Classes == {0, 1, 2}
Confs == {3, 5, 7, 9}
Detections == [cls : Classes, conf : Confs]
\* results plus boxes in the list given to one add_results call
MaxSize == 3

RECURSIVE TotalBoxes(_)
TotalBoxes(rs) == IF rs = <<>> THEN 0 ELSE Len(Head(rs)) + TotalBoxes(Tail(rs))
Size(rs) == Len(rs) + TotalBoxes(rs)

\* best_info[cls_id] = None
NoInfo == <<>>
\* mutant: the best confidence starts below the floor
InitBestBelowFloor ==
    [c \in 0 .. NUM_CLASSES - 1 |-> [conf |-> MIN_CONFIDENCE - 1, info |-> NoInfo]]
\* best_conf = [MIN_CONFIDENCE] * NUM_CLASSES; best_info = [None] * NUM_CLASSES
InitBest == [c \in 0 .. NUM_CLASSES - 1 |-> [conf |-> MIN_CONFIDENCE, info |-> NoInfo]]

\* mutant: a detection as good as the best so far replaces it
BetterOrEqual(conf, best) == conf >= best
\* float(conf) > best_conf[cls_id]
Better(conf, best) == conf > best

\* for i, conf in enumerate(confs): ... of one result, from box i on
RECURSIVE ScanBoxes(_, _, _, _)
ScanBoxes(boxes, r, i, best) ==
    IF i > Len(boxes) THEN best
    ELSE LET d == boxes[i]
             nb == IF 0 <= d.cls /\ d.cls < NUM_CLASSES /\ Better(d.conf, best[d.cls].conf)
                     THEN [best EXCEPT ![d.cls] = [conf |-> d.conf, info |-> <<r, i>>]]
                     ELSE best
         IN  ScanBoxes(boxes, r, i + 1, nb)

\* for result in results: if not boxes: continue ..., from result r on
RECURSIVE ScanResults(_, _, _)
ScanResults(rs, r, best) ==
    IF r > Len(rs) THEN best
    ELSE ScanResults(rs, r + 1, IF rs[r] = <<>> THEN best ELSE ScanBoxes(rs[r], r, 1, best))

\* A float is kept as a symbol: 0, or what util computes from a box, or the
\* latency time.time() - start_time.
Zero == <<"0">>
One == <<"1">>
Latency == <<"time.time() - start_time">>
get_x_offset_deg(box) == <<"x_offset_deg", box>>
get_y_offset_deg(box) == <<"y_offset_deg", box>>

\* the arguments add_results passes to send_telemetry_data for class i
SendArgs(rs, i, info) ==
    IF info = NoInfo
      THEN [x |-> Zero, y |-> Zero, obj_cls |-> i, lat |-> Zero, detected |-> FALSE]
      ELSE [x |-> get_x_offset_deg(info), y |-> get_y_offset_deg(info),
            obj_cls |-> rs[info[1]][info[2]].cls, lat |-> Latency, detected |-> TRUE]

\* mutant: the detected flag is sent first
FieldNamesDetFirst == <<"vis_det", "vis_x", "vis_y", "vis_lat">>
\* the four named_value messages of one send_telemetry_data call, in order
FieldNames == <<"vis_x", "vis_y", "vis_lat", "vis_det">>
FieldMessage(call, k) ==
    [name |-> FieldNames[k], cls |-> call.obj_cls,
     value |-> CASE k = 1 -> call.x
                 [] k = 2 -> call.y
                 [] k = 3 -> call.lat
                 [] OTHER -> IF call.detected THEN One ELSE Zero]

TelInit ==
    /\ results = <<>>
    /\ mavlink_conn = "None"
    /\ telpc = "idle"
    /\ best_info = <<>>
    /\ cls_i = 0
    /\ fld = 1
    /\ calls = <<>>
    /\ sent = <<>>
    /\ outcome = <<>>

\* the detector returns one more (empty) Results object for the frame
TelAddResult ==
    /\ telpc = "idle"
    /\ Size(results) < MaxSize
    /\ results' = Append(results, <<>>)
    /\ UNCHANGED <<mavlink_conn, telpc, best_info, cls_i, fld, calls, sent, outcome>>
    /\ UNCHANGED <<pipevars, snapvars, sigvars, ensvars, purevars>>

\* the detector reports one more box in the last Results object
TelAddBox(d) ==
    /\ telpc = "idle"
    /\ results # <<>>
    /\ Size(results) < MaxSize
    /\ results' = [results EXCEPT ![Len(results)] = Append(@, d)]
    /\ UNCHANGED <<mavlink_conn, telpc, best_info, cls_i, fld, calls, sent, outcome>>
    /\ UNCHANGED <<pipevars, snapvars, sigvars, ensvars, purevars>>

\* add_results(results, start_time): the first loop (telemetry.py:60-80)
TelAddResults ==
    /\ telpc = "idle"
    /\ best_info' = [c \in 0 .. NUM_CLASSES - 1 |-> ScanResults(results, 1, InitBest)[c].info]
    /\ cls_i' = 0
    /\ telpc' = "class"
    /\ UNCHANGED <<results, mavlink_conn, fld, calls, sent, outcome>>
    /\ UNCHANGED <<pipevars, snapvars, sigvars, ensvars, purevars>>

\* for i in range(len(best_info)): the call of send_telemetry_data for class i
TelClass ==
    /\ telpc = "class"
    /\ cls_i < NUM_CLASSES
    /\ calls' = Append(calls, SendArgs(results, cls_i, best_info[cls_i]))
    /\ telpc' = "ensure"
    /\ UNCHANGED <<results, mavlink_conn, best_info, cls_i, fld, sent, outcome>>
    /\ UNCHANGED <<pipevars, snapvars, sigvars, ensvars, purevars>>

\* the second loop is over: add_results returns
TelReturn ==
    /\ telpc = "class"
    /\ cls_i >= NUM_CLASSES
    /\ telpc' = "done"
    /\ UNCHANGED <<results, mavlink_conn, best_info, cls_i, fld, calls, sent, outcome>>
    /\ UNCHANGED <<pipevars, snapvars, sigvars, ensvars, purevars>>

\* ensure_mavlink(): _mavlink_conn is not None
TelEnsureReuse ==
    /\ telpc = "ensure"
    /\ mavlink_conn # "None"
    /\ fld' = 1
    /\ telpc' = "field"
    /\ UNCHANGED <<results, mavlink_conn, best_info, cls_i, calls, sent, outcome>>
    /\ UNCHANGED <<pipevars, snapvars, sigvars, ensvars, purevars>>

\* ensure_mavlink(): mavutil.mavlink_connection(uri) returns a connection
TelConnectOk ==
    /\ telpc = "ensure"
    /\ mavlink_conn = "None"
    /\ mavlink_conn' = "conn"
    /\ fld' = 1
    /\ telpc' = "field"
    /\ UNCHANGED <<results, best_info, cls_i, calls, sent, outcome>>
    /\ UNCHANGED <<pipevars, snapvars, sigvars, ensvars, purevars>>

\* ensure_mavlink(): mavutil.mavlink_connection(uri) raises; conn is None: return
TelConnectFail ==
    /\ telpc = "ensure"
    /\ mavlink_conn = "None"
    /\ outcome' = Append(outcome, "noconn")
    /\ cls_i' = cls_i + 1
    /\ telpc' = "class"
    /\ UNCHANGED <<results, mavlink_conn, best_info, fld, calls, sent>>
    /\ UNCHANGED <<pipevars, snapvars, sigvars, ensvars, purevars>>

\* conn.mav.named_value_float_send / named_value_int_send of field fld
TelSendField ==
    /\ telpc = "field"
    /\ sent' = Append(sent, FieldMessage(calls[Len(calls)], fld))
    /\ IF fld = Len(FieldNames)
         THEN /\ outcome' = Append(outcome, "sent")
              /\ cls_i' = cls_i + 1
              /\ telpc' = "class"
              /\ fld' = fld
         ELSE /\ fld' = fld + 1
              /\ UNCHANGED <<outcome, cls_i, telpc>>
    /\ UNCHANGED <<results, mavlink_conn, best_info, calls>>
    /\ UNCHANGED <<pipevars, snapvars, sigvars, ensvars, purevars>>

\* mutant: the send is outside the try, its exception leaves send_telemetry_data
TelSendRaiseUncaught ==
    /\ telpc = "field"
    /\ outcome' = Append(outcome, "raised")
    /\ telpc' = "crashed"
    /\ UNCHANGED <<results, mavlink_conn, best_info, cls_i, fld, calls, sent>>
    /\ UNCHANGED <<pipevars, snapvars, sigvars, ensvars, purevars>>

\* the send of field fld raises: except Exception: print; return
TelSendRaise ==
    /\ telpc = "field"
    /\ outcome' = Append(outcome, "raised")
    /\ cls_i' = cls_i + 1
    /\ telpc' = "class"
    /\ UNCHANGED <<results, mavlink_conn, best_info, fld, calls, sent>>
    /\ UNCHANGED <<pipevars, snapvars, sigvars, ensvars, purevars>>

\* the detection thread goes on to its next frame (main.py:132-148)
TelNextFrame ==
    /\ telpc = "done"
    /\ results' = <<>>
    /\ best_info' = <<>>
    /\ calls' = <<>>
    /\ sent' = <<>>
    /\ outcome' = <<>>
    /\ cls_i' = 0
    /\ fld' = 1
    /\ telpc' = "idle"
    /\ UNCHANGED mavlink_conn
    /\ UNCHANGED <<pipevars, snapvars, sigvars, ensvars, purevars>>

TelNext ==
    \/ TelAddResult
    \/ \E d \in Detections : TelAddBox(d)
    \/ TelAddResults \/ TelClass \/ TelReturn
    \/ TelEnsureReuse \/ TelConnectOk \/ TelConnectFail
    \/ TelSendField \/ TelSendRaise
    \/ TelNextFrame

\* ------------------------------ run_tracker_in_thread, the snapshot timer
\* if (time.time() - snapshot_time > 10): seconds between snapshots
SnapshotInterval == 10
\* the clock runs from 0 to MaxTime, in seconds
MaxTime == 23

SnapInit ==
    /\ now = 0
    /\ snapshot_time = [c \in Cams |-> 0]
    /\ snappc = [c \in Cams |-> "start"]
    /\ lastsubmit = [c \in Cams |-> -1]
    /\ prevsubmit = [c \in Cams |-> -1]

\* time passes
SnapTick ==
    /\ now < MaxTime
    /\ now' = now + 1
    /\ UNCHANGED <<snapshot_time, snappc, lastsubmit, prevsubmit>>
    /\ UNCHANGED <<pipevars, telvars, sigvars, ensvars, purevars>>

\* snapshot_time: float = time.time()   (main.py:125)
SnapStart(c) ==
    /\ snappc[c] = "start"
    /\ snapshot_time' = [snapshot_time EXCEPT ![c] = now]
    /\ snappc' = [snappc EXCEPT ![c] = "frame"]
    /\ UNCHANGED <<now, lastsubmit, prevsubmit>>
    /\ UNCHANGED <<pipevars, telvars, sigvars, ensvars, purevars>>

\* a frame is processed: if (time.time() - snapshot_time > 10):
SnapCheck(c) ==
    /\ snappc[c] = "frame"
    /\ snappc' = [snappc EXCEPT ![c] =
                    IF now - snapshot_time[c] > SnapshotInterval THEN "submit" ELSE "frame"]
    /\ UNCHANGED <<now, snapshot_time, lastsubmit, prevsubmit>>
    /\ UNCHANGED <<pipevars, telvars, sigvars, ensvars, purevars>>

\* snapshotter.submit(results[0])
SnapSubmit(c) ==
    /\ snappc[c] = "submit"
    /\ prevsubmit' = [prevsubmit EXCEPT ![c] = lastsubmit[c]]
    /\ lastsubmit' = [lastsubmit EXCEPT ![c] = now]
    /\ snappc' = [snappc EXCEPT ![c] = "reset"]
    /\ UNCHANGED <<now, snapshot_time>>
    /\ UNCHANGED <<pipevars, telvars, sigvars, ensvars, purevars>>

\* mutant: the timer is not set again after a submit
SnapResetMissing(c) ==
    /\ snappc[c] = "reset"
    /\ snappc' = [snappc EXCEPT ![c] = "frame"]
    /\ UNCHANGED <<now, snapshot_time, lastsubmit, prevsubmit>>
    /\ UNCHANGED <<pipevars, telvars, sigvars, ensvars, purevars>>

\* snapshot_time = time.time()   (main.py:157)
SnapReset(c) ==
    /\ snappc[c] = "reset"
    /\ snapshot_time' = [snapshot_time EXCEPT ![c] = now]
    /\ snappc' = [snappc EXCEPT ![c] = "frame"]
    /\ UNCHANGED <<now, lastsubmit, prevsubmit>>
    /\ UNCHANGED <<pipevars, telvars, sigvars, ensvars, purevars>>

SnapNext ==
    \/ SnapTick
    \/ \E c \in Cams : SnapStart(c) \/ SnapCheck(c) \/ SnapSubmit(c) \/ SnapReset(c)

\* ----------------------------------------------- telemetry.py, inbound
\* texts of the STATUSTEXT messages that arrive
RawTexts == {"hello", "other", "picture", " PICTURE", "Generate "}
\* get_message_text(msg).strip().lower() on those texts
StripLower(t) ==
    CASE t = " PICTURE" -> "picture"
      [] t = "Generate " -> "generate"
      [] OTHER -> t
\* messages that arrive for one get_signal call
MaxMsgs == 5

SigInit ==
    /\ mavlink_recv_conn = "None"
    /\ inbox = <<>>
    /\ sigpc = "idle"
    /\ newest = ""
    /\ sigresult = ""
    /\ drained = <<>>
    /\ sigend = "none"

\* mutant: any later text replaces "picture"
UpdateLastWins(old, text) == IF old # "generate" THEN text ELSE old
\* if newest != "generate" and (text == "generate" or newest != "picture"): newest = text
Update(old, text) ==
    IF old # "generate" /\ (text = "generate" \/ old # "picture") THEN text ELSE old

\* a STATUSTEXT message reaches the listening socket
SigArrive(t) ==
    /\ mavlink_recv_conn # "None"
    /\ Len(inbox) + Len(drained) < MaxMsgs
    /\ inbox' = Append(inbox, t)
    /\ UNCHANGED <<mavlink_recv_conn, sigpc, newest, sigresult, drained, sigend>>
    /\ UNCHANGED <<pipevars, telvars, snapvars, ensvars, purevars>>

\* get_signal(): ensure_mavlink_recv() returns the connection it has; newest = ""
SigEnsureReuse ==
    /\ sigpc = "idle"
    /\ mavlink_recv_conn # "None"
    /\ newest' = ""
    /\ sigend' = "none"
    /\ sigpc' = "drain"
    /\ UNCHANGED <<mavlink_recv_conn, inbox, sigresult, drained>>
    /\ UNCHANGED <<pipevars, telvars, snapvars, ensvars, purevars>>

\* get_signal(): ensure_mavlink_recv() opens the connection; newest = ""
SigConnectOk ==
    /\ sigpc = "idle"
    /\ mavlink_recv_conn = "None"
    /\ mavlink_recv_conn' = "conn"
    /\ newest' = ""
    /\ sigend' = "none"
    /\ sigpc' = "drain"
    /\ UNCHANGED <<inbox, sigresult, drained>>
    /\ UNCHANGED <<pipevars, telvars, snapvars, ensvars, purevars>>

\* get_signal(): ensure_mavlink_recv() fails; conn is None: return ""
SigConnectFail ==
    /\ sigpc = "idle"
    /\ mavlink_recv_conn = "None"
    /\ sigresult' = ""
    /\ sigend' = "noconn"
    /\ sigpc' = "done"
    /\ UNCHANGED <<mavlink_recv_conn, inbox, newest, drained>>
    /\ UNCHANGED <<pipevars, telvars, snapvars, ensvars, purevars>>

\* msg = conn.recv_match(...) returns a message; newest is updated
SigRecv ==
    /\ sigpc = "drain"
    /\ inbox # <<>>
    /\ newest' = Update(newest, StripLower(Head(inbox)))
    /\ drained' = Append(drained, Head(inbox))
    /\ inbox' = Tail(inbox)
    /\ UNCHANGED <<mavlink_recv_conn, sigpc, sigresult, sigend>>
    /\ UNCHANGED <<pipevars, telvars, snapvars, ensvars, purevars>>

\* msg = conn.recv_match(...) returns None: break; return newest
SigRecvNone ==
    /\ sigpc = "drain"
    /\ inbox = <<>>
    /\ sigresult' = newest
    /\ sigend' = "ok"
    /\ sigpc' = "done"
    /\ UNCHANGED <<mavlink_recv_conn, inbox, newest, drained>>
    /\ UNCHANGED <<pipevars, telvars, snapvars, ensvars, purevars>>

\* conn.recv_match(...) raises: except Exception: print; return ""
SigRecvRaise ==
    /\ sigpc = "drain"
    /\ sigresult' = ""
    /\ sigend' = "raised"
    /\ sigpc' = "done"
    /\ UNCHANGED <<mavlink_recv_conn, inbox, newest, drained>>
    /\ UNCHANGED <<pipevars, telvars, snapvars, ensvars, purevars>>

\* the caller has the result; the next poll starts from nothing drained
SigReturn ==
    /\ sigpc = "done"
    /\ drained' = <<>>
    /\ sigpc' = "idle"
    /\ UNCHANGED <<mavlink_recv_conn, inbox, newest, sigresult, sigend>>
    /\ UNCHANGED <<pipevars, telvars, snapvars, ensvars, purevars>>

SigNext ==
    \/ \E t \in RawTexts : SigArrive(t)
    \/ SigEnsureReuse \/ SigConnectOk \/ SigConnectFail
    \/ SigRecv \/ SigRecvNone \/ SigRecvRaise
    \/ SigReturn

\* ------------- telemetry.py, ensure_mavlink under several detection threads
\* Every detection thread calls telemetry.add_results (main.py:148), and with
\* it send_telemetry_data and ensure_mavlink, on the one module-level
\* _mavlink_conn.  No lock is taken: a thread can be preempted between the
\* test of the global, the call that opens the connection, the store and the
\* return, so each of them is a step here.
\* send_telemetry_data calls one detection thread makes
MaxSends == 2
\* the k-th connection object created
ConnName(k) == "conn" \o ToString(k)
otherpipe == <<pipevars, snapvars, sigvars, purevars>>
teltail == <<results, telpc, best_info, cls_i, fld, calls, sent, outcome>>

\* connection objects stored into _mavlink_conn so far
Stored == created - Cardinality({u \in Cams : enspc[u] = "store"})

EnsInit ==
    /\ enspc = [t \in Cams |-> "idle"]
    /\ newconn = [t \in Cams |-> "None"]
    /\ conn = [t \in Cams |-> "None"]
    /\ nsends = [t \in Cams |-> 0]
    /\ created = 0
    /\ aftersuccess = [t \in Cams |-> FALSE]
    /\ used = [t \in Cams |-> {}]

\* send_telemetry_data(...) is called: conn = ensure_mavlink()
EnsCall(t) ==
    /\ enspc[t] = "idle"
    /\ nsends[t] < MaxSends
    /\ nsends' = [nsends EXCEPT ![t] = @ + 1]
    /\ aftersuccess' = [aftersuccess EXCEPT ![t] = Stored > 0]
    /\ enspc' = [enspc EXCEPT ![t] = "check"]
    /\ UNCHANGED <<mavlink_conn, newconn, conn, created, used, teltail, otherpipe>>

\* if _mavlink_conn is not None:
EnsCheck(t) ==
    /\ enspc[t] = "check"
    /\ enspc' = [enspc EXCEPT ![t] = IF mavlink_conn # "None" THEN "ret" ELSE "connect"]
    /\ UNCHANGED <<mavlink_conn, newconn, conn, nsends, created, aftersuccess, used, teltail, otherpipe>>

\* mavutil.mavlink_connection(uri) returns a new connection object
EnsConnectOk(t) ==
    /\ enspc[t] = "connect"
    /\ created' = created + 1
    /\ newconn' = [newconn EXCEPT ![t] = ConnName(created + 1)]
    /\ enspc' = [enspc EXCEPT ![t] = "store"]
    /\ UNCHANGED <<mavlink_conn, conn, nsends, aftersuccess, used, teltail, otherpipe>>

\* mavutil.mavlink_connection(uri) raises
EnsConnectFail(t) ==
    /\ enspc[t] = "connect"
    /\ enspc' = [enspc EXCEPT ![t] = "clear"]
    /\ UNCHANGED <<mavlink_conn, newconn, conn, nsends, created, aftersuccess, used, teltail, otherpipe>>

\* _mavlink_conn = <the new object>
EnsStore(t) ==
    /\ enspc[t] = "store"
    /\ mavlink_conn' = newconn[t]
    /\ enspc' = [enspc EXCEPT ![t] = "ret"]
    /\ UNCHANGED <<newconn, conn, nsends, created, aftersuccess, used, teltail, otherpipe>>

\* except Exception: print(...); _mavlink_conn = None; return None
\* and in send_telemetry_data: if conn is None: return
EnsClear(t) ==
    /\ enspc[t] = "clear"
    /\ mavlink_conn' = "None"
    /\ conn' = [conn EXCEPT ![t] = "None"]
    /\ enspc' = [enspc EXCEPT ![t] = "idle"]
    /\ UNCHANGED <<newconn, nsends, created, aftersuccess, used, teltail, otherpipe>>

\* return _mavlink_conn (the global is read again), and in
\* send_telemetry_data: if conn is None: return
EnsReturn(t) ==
    /\ enspc[t] = "ret"
    /\ conn' = [conn EXCEPT ![t] = mavlink_conn]
    /\ enspc' = [enspc EXCEPT ![t] = IF mavlink_conn = "None" THEN "idle" ELSE "send"]
    /\ UNCHANGED <<mavlink_conn, newconn, nsends, created, aftersuccess, used, teltail, otherpipe>>

\* the four conn.mav.named_value_*_send calls inside the try, raising or not
EnsSend(t) ==
    /\ enspc[t] = "send"
    /\ used' = [used EXCEPT ![t] = @ \cup {conn[t]}]
    /\ enspc' = [enspc EXCEPT ![t] = "idle"]
    /\ UNCHANGED <<mavlink_conn, newconn, conn, nsends, created, aftersuccess, teltail, otherpipe>>

EnsNext ==
    \E t \in Cams :
        \/ EnsCall(t) \/ EnsCheck(t) \/ EnsConnectOk(t) \/ EnsConnectFail(t)
        \/ EnsStore(t) \/ EnsClear(t) \/ EnsReturn(t) \/ EnsSend(t)

\* ------------------------------------------------------- the display rate
\* run_tracker_in_thread, main.py:160-161.  time.time() returns seconds as a
\* float; the model counts time in ticks, TicksPerMicro of them in one
\* microsecond, so that elapsed times below the floor other than zero exist.
TicksPerMicro == 4
TicksPerSecond == 1000000 * TicksPerMicro
\* the floor 1e-6 s of main.py:161
RateFloor == TicksPerMicro
\* 0.1 s
TenthSecond == TicksPerSecond \div 10
\* capture and processing-end times: 0 .. MaxTick ticks, and the same 0.1 s later
MaxTick == 8
FpsTimes == (0 .. MaxTick) \cup {TenthSecond + t : t \in 0 .. MaxTick}

\* round(n / d) for n >= 0, d > 0; Python's round goes to the even neighbour
\* on a tie
RoundHalfEven(n, d) ==
    LET whole == n \div d
        rest == n % d
    IN  IF 2 * rest < d THEN whole
        ELSE IF 2 * rest > d THEN whole + 1
        ELSE IF whole % 2 = 0 THEN whole ELSE whole + 1

\* mutant: the test lets every non-negative elapsed time through
AboveFloorNonNegative(e) == e >= 0
\* elapsed > 1e-6
AboveFloor(e) == e > RateFloor

\* round(1 / elapsed, 2), in hundredths of a frame per second
Rate(e) == RoundHalfEven(100 * TicksPerSecond, e)

FpsIdle ==
    /\ start_time = 0
    /\ end_time = 0
    /\ elapsed = 0
    /\ fps = 0
    /\ fpspc = "idle"
    /\ zerodiv = FALSE

\* a frame captured at start_time has been processed at end_time
FpsInputs ==
    /\ start_time \in FpsTimes
    /\ end_time \in FpsTimes
    /\ elapsed = 0
    /\ fps = 0
    /\ fpspc = "elapsed"
    /\ zerodiv = FALSE

\* elapsed = end_time - start_time
FpsElapsed ==
    /\ fpspc = "elapsed"
    /\ elapsed' = end_time - start_time
    /\ fpspc' = "rate"
    /\ UNCHANGED <<start_time, end_time, fps, zerodiv, wirevars, restvars>>

\* fps = round(1 / elapsed, 2) if elapsed > 1e-6 else 0.0
\* 1 / elapsed raises ZeroDivisionError when elapsed is 0.0.
FpsRate ==
    /\ fpspc = "rate"
    /\ IF AboveFloor(elapsed)
         THEN IF elapsed = 0
                THEN zerodiv' = TRUE /\ fpspc' = "raised" /\ fps' = fps
                ELSE fps' = Rate(elapsed) /\ fpspc' = "done" /\ zerodiv' = zerodiv
         ELSE fps' = 0 /\ fpspc' = "done" /\ zerodiv' = zerodiv
    /\ UNCHANGED <<start_time, end_time, elapsed, wirevars, restvars>>

FpsNext == FpsElapsed \/ FpsRate

\* ------------------------------------------ the names and the timestamp
\* name_bytes and send_telemetry_data, telemetry.py:100-126.  A str is a
\* sequence of code points, a bytes object a sequence of 0 .. 255.
\* the width of a name, telemetry.py:101
NameWidth == 10
\* the highest code point the "ascii" codec encodes
MaxAscii == 127
\* input strings: up to MaxNameLen characters, each "a" or "e acute"
MaxNameLen == 11
NameAlphabet == {97, 233}
NameStrings == UNION {[1 .. n -> NameAlphabet] : n \in 0 .. MaxNameLen}

IsAscii(ch) == ch <= MaxAscii
\* s.encode("ascii", "ignore")
EncodeAsciiIgnore(s) == SelectSeq(s, IsAscii)
\* b[:n]
Take(b, n) == SubSeq(b, 1, IF Len(b) < n THEN Len(b) ELSE n)
\* b"\0" * n, empty when n <= 0
Nuls(n) == [i \in 1 .. n |-> 0]

\* mutant: the encoded string is not cut to the width
name_bytesNoTruncate(s) ==
    LET b == EncodeAsciiIgnore(s)
    IN  b \o Nuls(NameWidth - Len(b))
name_bytes(s) ==
    LET b == Take(EncodeAsciiIgnore(s), NameWidth)
    IN  b \o Nuls(NameWidth - Len(b))

\* "vis_"
Vis == <<118, 105, 115, 95>>
\* "x", "y", "lat", "det"
FieldCodes == << <<120>>, <<121>>, <<108, 97, 116>>, <<100, 101, 116>> >>
\* str(n) of an int n >= 0
RECURSIVE Decimal(_)
Decimal(n) == IF n < 10 THEN <<48 + n>> ELSE Decimal(n \div 10) \o <<48 + (n % 10)>>
\* f"vis_x{obj_cls}", f"vis_y{obj_cls}", f"vis_lat{obj_cls}", f"vis_det{obj_cls}"
TagString(k, c) == Vis \o FieldCodes[k] \o Decimal(c)

\* the classes add_results sends a call for
Tracked == 0 .. NUM_CLASSES - 1

\* int(time.time() * 1000) is an unbounded int: a sign and a magnitude in
\* limbs of 16 bits, lowest first.  0xFFFFFFFF is two limbs of ones.
LimbBase == 65536
MaskLimbs == 2
LowLimbs == {0, 1, 32768, LimbBase - 1}
HighLimbs == {0, 1, 417}
Zero3 == <<0, 0, 0>>
ClockValues ==
    {[neg |-> s, mag |-> <<a, b, c>>] :
        s \in BOOLEAN, a \in LowLimbs, b \in LowLimbs, c \in HighLimbs}
    \ {[neg |-> TRUE, mag |-> Zero3]}
\* the clock the name specification runs at
SomeClock == [neg |-> FALSE, mag |-> <<1, 0, 417>>]
\* the clock moves MaxTicks milliseconds at the most during the calls
MaxTicks == 2

Inc(m) ==
    IF m[1] < LimbBase - 1 THEN <<m[1] + 1, m[2], m[3]>>
    ELSE IF m[2] < LimbBase - 1 THEN <<0, m[2] + 1, m[3]>>
    ELSE <<0, 0, m[3] + 1>>
Dec(m) ==
    IF m[1] > 0 THEN <<m[1] - 1, m[2], m[3]>>
    ELSE IF m[2] > 0 THEN <<LimbBase - 1, m[2] - 1, m[3]>>
    ELSE <<LimbBase - 1, LimbBase - 1, m[3] - 1>>
\* one millisecond later
Later(t) ==
    IF t.neg
      THEN LET m == Dec(t.mag) IN [neg |-> m # Zero3, mag |-> m]
      ELSE [neg |-> FALSE, mag |-> Inc(t.mag)]

\* mutant: the mask is applied to the magnitude, whatever the sign
Wrap32Magnitude(t) == SubSeq(t.mag, 1, MaskLimbs)
\* t & 0xFFFFFFFF: Python's & works on the two's complement of a negative int
Wrap32(t) ==
    IF ~t.neg THEN SubSeq(t.mag, 1, MaskLimbs)
    ELSE IF t.mag[1] = 0 /\ t.mag[2] = 0 THEN <<0, 0>>
    ELSE IF t.mag[1] = 0 THEN <<0, LimbBase - t.mag[2]>>
    ELSE <<LimbBase - t.mag[1], LimbBase - 1 - t.mag[2]>>

WireIdle ==
    /\ name_in = <<>>
    /\ name_out = <<>>
    /\ namepc = "idle"
    /\ clock_ms = SomeClock
    /\ time_boot_ms = <<0, 0>>
    /\ obj_cls = 0
    /\ send_fld = 1
    /\ sendpc = "off"
    /\ wire = <<>>
    /\ taken = [c \in Tracked |-> SomeClock]
    /\ ticks = 0
    /\ sentcls = {}

\* name_bytes is given any string, then add_results makes its calls
NameInputs ==
    /\ name_in \in NameStrings
    /\ name_out = <<>>
    /\ namepc = "input"
    /\ clock_ms = SomeClock
    /\ time_boot_ms = <<0, 0>>
    /\ obj_cls = 0
    /\ send_fld = 1
    /\ sendpc = "idle"
    /\ wire = <<>>
    /\ taken = [c \in Tracked |-> SomeClock]
    /\ ticks = 0
    /\ sentcls = {}

\* add_results makes its calls at any time of the clock
StampInputs ==
    /\ name_in = <<>>
    /\ name_out = <<>>
    /\ namepc = "idle"
    /\ clock_ms \in ClockValues
    /\ time_boot_ms = <<0, 0>>
    /\ obj_cls = 0
    /\ send_fld = 1
    /\ sendpc = "idle"
    /\ wire = <<>>
    /\ taken = [c \in Tracked |-> clock_ms]
    /\ ticks = 0
    /\ sentcls = {}

\* name_bytes(name_in)
NameApply ==
    /\ namepc = "input"
    /\ name_out' = name_bytes(name_in)
    /\ namepc' = "done"
    /\ UNCHANGED <<name_in, clock_ms, time_boot_ms, obj_cls, send_fld, sendpc, wire, taken,
                   ticks, sentcls, fpsvars, restvars>>

\* send_telemetry_data(x, y, c, lat, detected) is called (telemetry.py:87-98)
SendCall(c) ==
    /\ sendpc = "idle"
    /\ namepc # "input"
    /\ c \notin sentcls
    /\ obj_cls' = c
    /\ sendpc' = "ensure"
    /\ UNCHANGED <<name_in, name_out, namepc, clock_ms, time_boot_ms, send_fld, wire, taken,
                   ticks, sentcls, fpsvars, restvars>>

\* conn = ensure_mavlink(); if conn is None: return
SendNoConn ==
    /\ sendpc = "ensure"
    /\ sendpc' = "idle"
    /\ sentcls' = sentcls \cup {obj_cls}
    /\ UNCHANGED <<name_in, name_out, namepc, clock_ms, time_boot_ms, obj_cls, send_fld, wire,
                   taken, ticks, fpsvars, restvars>>

\* time_boot_ms = int(time.time() * 1000) & 0xFFFFFFFF
SendStamp ==
    /\ sendpc = "ensure"
    /\ time_boot_ms' = Wrap32(clock_ms)
    /\ taken' = [taken EXCEPT ![obj_cls] = clock_ms]
    /\ send_fld' = 1
    /\ sendpc' = "send"
    /\ UNCHANGED <<name_in, name_out, namepc, clock_ms, obj_cls, wire, ticks, sentcls,
                   fpsvars, restvars>>

\* conn.mav.named_value_float_send(time_boot_ms, name_bytes(f"vis_x{obj_cls}"), ...)
\* and the three sends after it
SendField ==
    /\ sendpc = "send"
    /\ wire' = Append(wire, [time_boot_ms |-> time_boot_ms,
                             name |-> name_bytes(TagString(send_fld, obj_cls)),
                             cls |-> obj_cls, k |-> send_fld])
    /\ IF send_fld < Len(FieldCodes)
         THEN send_fld' = send_fld + 1 /\ UNCHANGED <<sendpc, sentcls>>
         ELSE send_fld' = 1 /\ sendpc' = "idle" /\ sentcls' = sentcls \cup {obj_cls}
    /\ UNCHANGED <<name_in, name_out, namepc, clock_ms, time_boot_ms, obj_cls, taken, ticks,
                   fpsvars, restvars>>

\* a send raises: except Exception: print, return
SendRaise ==
    /\ sendpc = "send"
    /\ send_fld' = 1
    /\ sendpc' = "idle"
    /\ sentcls' = sentcls \cup {obj_cls}
    /\ UNCHANGED <<name_in, name_out, namepc, clock_ms, time_boot_ms, obj_cls, wire, taken,
                   ticks, fpsvars, restvars>>

\* the clock moves on while a call is under way
ClockTick ==
    /\ sendpc \in {"ensure", "send"}
    /\ ticks < MaxTicks
    /\ clock_ms' = Later(clock_ms)
    /\ ticks' = ticks + 1
    /\ UNCHANGED <<name_in, name_out, namepc, time_boot_ms, obj_cls, send_fld, sendpc, wire,
                   taken, sentcls, fpsvars, restvars>>

SendStep == (\E c \in Tracked : SendCall(c)) \/ SendNoConn \/ SendStamp \/ SendField \/ SendRaise

NameNext == NameApply \/ SendStep

StampNext == SendStep \/ ClockTick

\* ------------------------------------------- src/utils/camera.py, CameraHandler
\* One CameraHandler object and the calls made on it, one after the other.
\* A cv2.VideoCapture object is a number, the k-th one created; capdev[k]
\* says whether that object holds its device open.
\* open() calls made on the handler (each creates a VideoCapture object)
MaxOpens == 3
CapObjects == 1 .. MaxOpens

\* the object after __init__ (camera.py:20-22)
HandlerInit ==
    /\ cap = 0
    /\ is_opened = FALSE
    /\ capdev = [k \in CapObjects |-> FALSE]
    /\ ncaps = 0
    /\ hmeth = "__init__"
    /\ hret = <<>>
    /\ touched = 0
    /\ wasopen = "never"
    /\ hstate = "never"
    /\ inwith = FALSE

\* self.cap = cv2.VideoCapture(self.camera_index); self.is_opened = self.cap.isOpened()
OpenBody(ok, meth) ==
    /\ ncaps < MaxOpens
    /\ ncaps' = ncaps + 1
    /\ cap' = ncaps + 1
    /\ capdev' = [capdev EXCEPT ![ncaps + 1] = ok]
    /\ is_opened' = ok
    /\ hret' = IF meth = "open" THEN <<IF ok THEN "True" ELSE "False">> ELSE <<"self">>
    /\ hmeth' = meth
    /\ touched' = 1
    /\ wasopen' = hstate
    /\ hstate' = IF ok THEN "open" ELSE "failed"

\* mutant: release() leaves is_opened as it is
ReleaseBodyKeepFlag(meth) ==
    /\ IF cap # 0
         THEN capdev' = [capdev EXCEPT ![cap] = FALSE] /\ touched' = 1
              /\ hstate' = "released"
         ELSE UNCHANGED <<capdev, hstate>> /\ touched' = 0
    /\ hret' = <<"None">>
    /\ hmeth' = meth
    /\ wasopen' = hstate
    /\ UNCHANGED <<is_opened, cap, ncaps>>
\* if self.cap is not None: self.cap.release(); self.is_opened = False
ReleaseBody(meth) ==
    /\ IF cap # 0
         THEN capdev' = [capdev EXCEPT ![cap] = FALSE] /\ is_opened' = FALSE /\ touched' = 1
              /\ hstate' = "released"
         ELSE UNCHANGED <<capdev, is_opened, hstate>> /\ touched' = 0
    /\ hret' = <<"None">>
    /\ hmeth' = meth
    /\ wasopen' = hstate
    /\ UNCHANGED <<cap, ncaps>>

\* open()
HOpen(ok) ==
    /\ OpenBody(ok, "open")
    /\ UNCHANGED <<inwith, mapvars, fpsvars, wirevars, corevars>>

\* read_frame(); the device gives a frame or does not
HReadFrame(ret) ==
    /\ IF ~is_opened
         THEN hret' = <<"False", "None">> /\ touched' = 0
         ELSE hret' = (IF ret /\ capdev[cap] THEN <<"True", "frame">> ELSE <<"False", "None">>)
              /\ touched' = 1
    /\ hmeth' = "read_frame"
    /\ wasopen' = hstate
    /\ UNCHANGED <<cap, is_opened, capdev, ncaps, hstate, inwith, mapvars, fpsvars, wirevars, corevars>>

\* get_properties(): three cap.get calls and cap.getBackendName()
HGetProperties ==
    /\ IF ~is_opened
         THEN hret' = <<"{}">> /\ touched' = 0
         ELSE hret' = <<"width", "height", "fps", "backend">> /\ touched' = 4
    /\ hmeth' = "get_properties"
    /\ wasopen' = hstate
    /\ UNCHANGED <<cap, is_opened, capdev, ncaps, hstate, inwith, mapvars, fpsvars, wirevars, corevars>>

\* set_resolution(width, height): two cap.set calls, two cap.get calls, and
\* the device took the values or did not
HSetResolution(took) ==
    /\ IF ~is_opened
         THEN hret' = <<"False">> /\ touched' = 0
         ELSE hret' = <<IF took THEN "True" ELSE "False">> /\ touched' = 4
    /\ hmeth' = "set_resolution"
    /\ wasopen' = hstate
    /\ UNCHANGED <<cap, is_opened, capdev, ncaps, hstate, inwith, mapvars, fpsvars, wirevars, corevars>>

\* set_fps(fps): one cap.set call
HSetFps ==
    /\ IF ~is_opened
         THEN hret' = <<"False">> /\ touched' = 0
         ELSE hret' = <<"True">> /\ touched' = 1
    /\ hmeth' = "set_fps"
    /\ wasopen' = hstate
    /\ UNCHANGED <<cap, is_opened, capdev, ncaps, hstate, inwith, mapvars, fpsvars, wirevars, corevars>>

\* release()
HRelease ==
    /\ ReleaseBody("release")
    /\ UNCHANGED <<inwith, mapvars, fpsvars, wirevars, corevars>>

\* with handler: __enter__ calls open() and returns self
HEnter(ok) ==
    /\ ~inwith
    /\ OpenBody(ok, "__enter__")
    /\ inwith' = TRUE
    /\ UNCHANGED <<mapvars, fpsvars, wirevars, corevars>>

\* the with-block is left, by its end or by an exception: __exit__ calls release()
HExit ==
    /\ inwith
    /\ ReleaseBody("__exit__")
    /\ inwith' = FALSE
    /\ UNCHANGED <<mapvars, fpsvars, wirevars, corevars>>

HandlerNext ==
    \/ \E ok \in BOOLEAN : HOpen(ok)
    \/ \E ret \in BOOLEAN : HReadFrame(ret)
    \/ HGetProperties
    \/ \E took \in BOOLEAN : HSetResolution(took)
    \/ HSetFps
    \/ HRelease
    \/ \E ok \in BOOLEAN : HEnter(ok)
    \/ HExit

\* ----------------------------------------------------------- mapping.py
\* initialize() and generate_map() called by MapThreads at once, on the
\* module-level node, initialized and lock (mapping.py:15-17).  lock is the
\* thread that holds it, 0 when free; node is 0 for None, else the k-th Node
\* object created.
MapThreads == {1, 2}
\* calls of initialize() / generate_map() one thread makes
MaxMapCalls == 2

MapInit ==
    /\ node = 0
    /\ initialized = FALSE
    /\ lock = 0
    /\ mappc = [t \in MapThreads |-> "idle"]
    /\ mapret = [t \in MapThreads |-> "idle"]
    /\ mapcalls = [t \in MapThreads |-> 0]
    /\ nodes = 0
    /\ inits = [t \in MapThreads |-> 0]

MapRest == <<handlervars, fpsvars, wirevars, corevars>>

\* mutant: the with statement does not wait for the lock
MapAcquireNoWait(t, from, to) ==
    /\ mappc[t] = from
    /\ lock' = t
    /\ mappc' = [mappc EXCEPT ![t] = to]
\* with lock: the thread goes on when it has the lock
MapAcquire(t, from, to) ==
    /\ mappc[t] = from
    /\ lock = 0
    /\ lock' = t
    /\ mappc' = [mappc EXCEPT ![t] = to]

\* a thread calls initialize()
MapCallInitialize(t) ==
    /\ mappc[t] = "idle"
    /\ mapcalls[t] < MaxMapCalls
    /\ mapcalls' = [mapcalls EXCEPT ![t] = @ + 1]
    /\ mappc' = [mappc EXCEPT ![t] = "i_lock"]
    /\ mapret' = [mapret EXCEPT ![t] = "idle"]
    /\ UNCHANGED <<node, initialized, lock, nodes, inits, MapRest>>

\* a thread calls generate_map()
MapCallGenerate(t) ==
    /\ mappc[t] = "idle"
    /\ mapcalls[t] < MaxMapCalls
    /\ mapcalls' = [mapcalls EXCEPT ![t] = @ + 1]
    /\ mappc' = [mappc EXCEPT ![t] = "g_check"]
    /\ UNCHANGED <<node, initialized, lock, mapret, nodes, inits, MapRest>>

\* generate_map: if not initialized: initialize()
MapGenCheck(t) ==
    /\ mappc[t] = "g_check"
    /\ IF ~initialized
         THEN mappc' = [mappc EXCEPT ![t] = "i_lock"] /\ mapret' = [mapret EXCEPT ![t] = "g_lock"]
         ELSE mappc' = [mappc EXCEPT ![t] = "g_lock"] /\ mapret' = mapret
    /\ UNCHANGED <<node, initialized, lock, mapcalls, nodes, inits, MapRest>>

\* initialize: with lock:
MapInitLock(t) ==
    /\ MapAcquire(t, "i_lock", "i_node")
    /\ inits' = [inits EXCEPT ![t] = @ + 1]
    /\ UNCHANGED <<node, initialized, mapret, mapcalls, nodes, MapRest>>

\* initialize: if node is not None: return
MapInitNode(t) ==
    /\ mappc[t] = "i_node"
    /\ IF node # 0
         THEN lock' = 0 /\ mappc' = [mappc EXCEPT ![t] = mapret[t]]
         ELSE lock' = lock /\ mappc' = [mappc EXCEPT ![t] = "i_ensure"]
    /\ UNCHANGED <<node, initialized, mapret, mapcalls, nodes, inits, MapRest>>

\* initialize: ensure_nodeodm_container() returns True
MapEnsureOk(t) ==
    /\ mappc[t] = "i_ensure"
    /\ mappc' = [mappc EXCEPT ![t] = "i_create"]
    /\ UNCHANGED <<node, initialized, lock, mapret, mapcalls, nodes, inits, MapRest>>

\* initialize: ensure_nodeodm_container() returns False: print, return
MapEnsureFail(t) ==
    /\ mappc[t] = "i_ensure"
    /\ lock' = 0
    /\ mappc' = [mappc EXCEPT ![t] = mapret[t]]
    /\ UNCHANGED <<node, initialized, mapret, mapcalls, nodes, inits, MapRest>>

\* initialize: node = Node("localhost", 3000)
MapCreate(t) ==
    /\ mappc[t] = "i_create"
    /\ nodes' = nodes + 1
    /\ node' = nodes + 1
    /\ mappc' = [mappc EXCEPT ![t] = "i_flag"]
    /\ UNCHANGED <<initialized, lock, mapret, mapcalls, inits, MapRest>>

\* initialize: Node(...) raises: except Exception: print
MapCreateRaise(t) ==
    /\ mappc[t] = "i_create"
    /\ mappc' = [mappc EXCEPT ![t] = "i_unlock"]
    /\ UNCHANGED <<node, initialized, lock, mapret, mapcalls, nodes, inits, MapRest>>

\* initialize: initialized = True
MapFlag(t) ==
    /\ mappc[t] = "i_flag"
    /\ initialized' = TRUE
    /\ mappc' = [mappc EXCEPT ![t] = "i_unlock"]
    /\ UNCHANGED <<node, lock, mapret, mapcalls, nodes, inits, MapRest>>

\* initialize: the with block ends; print; return
MapInitUnlock(t) ==
    /\ mappc[t] = "i_unlock"
    /\ lock' = 0
    /\ mappc' = [mappc EXCEPT ![t] = mapret[t]]
    /\ UNCHANGED <<node, initialized, mapret, mapcalls, nodes, inits, MapRest>>

\* generate_map: with lock:
MapGenLock(t) ==
    /\ MapAcquire(t, "g_lock", "g_node")
    /\ UNCHANGED <<node, initialized, mapret, mapcalls, nodes, inits, MapRest>>

\* generate_map: if node is None: print, return; else the task is run on node
MapGenNode(t) ==
    /\ mappc[t] = "g_node"
    /\ IF node = 0
         THEN lock' = 0 /\ mappc' = [mappc EXCEPT ![t] = "idle"]
         ELSE lock' = lock /\ mappc' = [mappc EXCEPT ![t] = "g_work"]
    /\ UNCHANGED <<node, initialized, mapret, mapcalls, nodes, inits, MapRest>>

\* generate_map: the task is over, or a return or an exception ended it;
\* the with block ends
MapGenDone(t) ==
    /\ mappc[t] = "g_work"
    /\ lock' = 0
    /\ mappc' = [mappc EXCEPT ![t] = "idle"]
    /\ UNCHANGED <<node, initialized, mapret, mapcalls, nodes, inits, MapRest>>

MapStep(t) ==
    \/ MapCallInitialize(t) \/ MapCallGenerate(t) \/ MapGenCheck(t)
    \/ MapInitLock(t) \/ MapInitNode(t) \/ MapEnsureOk(t) \/ MapEnsureFail(t)
    \/ MapCreate(t) \/ MapCreateRaise(t) \/ MapFlag(t) \/ MapInitUnlock(t)
    \/ MapGenLock(t) \/ MapGenNode(t) \/ MapGenDone(t)

MapNext == \E t \in MapThreads : MapStep(t)

\* ------------------------------------------------------------------ Spec
CamStep(c) ==
    \/ CamReadOk(c) \/ CamReadFail(c) \/ CamFull(c) \/ CamEvict(c) \/ CamPut(c)
    \/ CamRelease(c)

TrkStep(c) ==
    \/ TrkStart(c) \/ TrkLoop(c) \/ TrkGet(c) \/ TrkGetTimeout(c) \/ TrkProcess(c)
    \/ TrkRaise(c) \/ TrkDisplayFull(c) \/ TrkDisplayEvict(c) \/ TrkDisplayPut(c)
    \/ TrkJoin(c)

MainStep ==
    \/ MainSpawn \/ MainSnapshotThread \/ MainTry \/ MainShow \/ MainKeyQuit
    \/ MainKeyNone \/ MainAlive \/ MainHandler \/ MainJoin \/ MainStopServer
    \/ MainDestroy

\* the detection thread when the detector and the other calls of the loop
\* body never raise
TrkStepNoRaise(c) ==
    \/ TrkStart(c) \/ TrkLoop(c) \/ TrkGet(c) \/ TrkGetTimeout(c) \/ TrkProcess(c)
    \/ TrkDisplayFull(c) \/ TrkDisplayEvict(c) \/ TrkDisplayPut(c) \/ TrkJoin(c)

Init ==
    /\ cameras = OneCamera
    /\ PipeInit /\ TelInit /\ SnapInit /\ SigInit /\ EnsInit /\ FpsIdle /\ WireIdle
    /\ HandlerInit /\ MapInit

\* two cameras, no thread started
TwoInit ==
    /\ cameras = TwoCameras
    /\ PipeInit /\ TelInit /\ SnapInit /\ SigInit /\ EnsInit /\ FpsIdle /\ WireIdle
    /\ HandlerInit /\ MapInit

\* the pipeline at rest, for the specifications of one component
RestInit == Init /\ enable_mjpeg /\ enable_display

Next ==
    \/ MainStep
    \/ Interrupt
    \/ \E c \in Cams : CamStep(c)
    \/ \E c \in Cams : TrkStep(c)

Spec == Init /\ [][Next]_vars

\* The steps of the capture thread that do not depend on the device failing
CamProgress(c) ==
    \/ CamReadOk(c) \/ CamFull(c) \/ CamEvict(c) \/ CamPut(c) \/ CamRelease(c)

\* Every thread that can take a step eventually takes one: the detection
\* thread (its only wait has a timeout), the main thread, and the capture
\* thread, whose video.read() returns a frame while the device has one.  A
\* device failure and an interrupt are never forced to happen: a capture
\* thread at "read" with MaxFrames frames read and the flag unset stands for
\* a healthy camera that goes on delivering frames.
Fairness ==
    /\ WF_vars(MainStep)
    /\ \A c \in CamsOf(OneCamera) : WF_vars(CamProgress(c)) /\ WF_vars(TrkStep(c))

LiveSpec == Init /\ [][Next]_vars /\ Fairness

\* LiveSpec with a detector that never raises
NextNoRaise ==
    \/ MainStep
    \/ Interrupt
    \/ \E c \in Cams : CamStep(c)
    \/ \E c \in Cams : TrkStepNoRaise(c)

FairnessNoRaise ==
    /\ WF_vars(MainStep)
    /\ \A c \in CamsOf(OneCamera) : WF_vars(CamProgress(c)) /\ WF_vars(TrkStepNoRaise(c))

NoRaiseSpec == Init /\ [][NextNoRaise]_vars /\ FairnessNoRaise

\* The steps of the capture thread that are its own: video.read() is a call
\* into the device without a timeout, and returns when the device lets it.
CamOwnSteps(c) ==
    \/ CamFull(c) \/ CamEvict(c) \/ CamPut(c) \/ CamRelease(c)

\* NoRaiseSpec with a device that may stall: a pending video.read() need
\* not return.
FairnessStall ==
    /\ WF_vars(MainStep)
    /\ \A c \in CamsOf(OneCamera) : WF_vars(CamOwnSteps(c)) /\ WF_vars(TrkStepNoRaise(c))

StallSpec == Init /\ [][NextNoRaise]_vars /\ FairnessStall

TelSpec == RestInit /\ [][TelNext]_vars

\* the steps of the detection thread inside and after add_results
TelStep ==
    \/ TelAddResults \/ TelClass \/ TelReturn
    \/ TelEnsureReuse \/ TelConnectOk \/ TelConnectFail
    \/ TelSendField \/ TelSendRaise
    \/ TelNextFrame

\* TelSpec with a detection thread that keeps running
TelLiveSpec == RestInit /\ [][TelNext]_vars /\ WF_vars(TelStep)

SnapSpec == RestInit /\ [][SnapNext]_vars

SigSpec == RestInit /\ [][SigNext]_vars

\* Two cameras run headless (enable_display False: the main thread sleeps in
\* its try block, main.py:254-256) and no interrupt comes: what one camera's
\* threads do next to the other's.
PairInit == TwoInit /\ enable_mjpeg /\ ~enable_display

TrkStepHeadless(c) ==
    \/ TrkStart(c) \/ TrkLoop(c) \/ TrkGet(c) \/ TrkGetTimeout(c) \/ TrkProcess(c)
    \/ TrkJoin(c)

MainStepHeadless == MainSpawn \/ MainSnapshotThread \/ MainTry

PairNext ==
    \/ MainStepHeadless
    \/ \E c \in Cams : CamStep(c)
    \/ \E c \in Cams : TrkStepHeadless(c)

PairFairness ==
    /\ WF_vars(MainStepHeadless)
    /\ \A c \in CamsOf(TwoCameras) : WF_vars(CamProgress(c)) /\ WF_vars(TrkStepHeadless(c))

PairSpec == PairInit /\ [][PairNext]_vars /\ PairFairness

\* the detection threads of two cameras inside send_telemetry_data
RestTwoInit == TwoInit /\ enable_mjpeg /\ enable_display

EnsSpec == RestTwoInit /\ [][EnsNext]_vars

\* one component at a time, its inputs drawn by the initial state
RestBase ==
    /\ cameras = OneCamera
    /\ PipeInit /\ TelInit /\ SnapInit /\ SigInit /\ EnsInit
    /\ HandlerInit /\ MapInit
    /\ enable_mjpeg /\ enable_display

FpsInit == RestBase /\ FpsInputs /\ WireIdle

FpsSpec == FpsInit /\ [][FpsNext]_vars

NameInit == RestBase /\ FpsIdle /\ NameInputs

NameSpec == NameInit /\ [][NameNext]_vars

StampInit == RestBase /\ FpsIdle /\ StampInputs

StampSpec == StampInit /\ [][StampNext]_vars

HandlerSpec == RestInit /\ [][HandlerNext]_vars

MapSpec == RestInit /\ [][MapNext]_vars

\* ---------------------------------------------------------------- claims
\* C1: freshness of the capture->detect slot.  Whenever the detection thread
\* takes a frame from q, that frame is the one of the last publish (evict if
\* full, then put_nowait) the capture thread has completed.
C1_Freshness ==
    [][\A c \in Cams :
          (trkpc[c] = "get" /\ trkpc'[c] = "track") => frame'[c] = published[c]]_vars

\* a take that happened after an older frame had been evicted for a newer one
C1_Witness ==
    \E c \in Cams : trkpc[c] = "track" /\ frame[c] = 3 /\ evicted[c] = {2}

\* C2: both queues hold at most one item, and no item that a producer's
\* get_nowait removed is afterwards handed to the consumer.
C2_CapacityAndEviction ==
    \A c \in Cams :
        /\ Len(q[c]) <= 1
        /\ Len(out_q[c]) <= 1
        /\ frame[c] \notin evicted[c]
        /\ shown[c] \notin devicted[c]

\* both producers have evicted something and both consumers have received something
C2_Witness ==
    \E c \in Cams :
        /\ evicted[c] # {} /\ frame[c] # NoFrame
        /\ devicted[c] # {} /\ shown[c] # NoFrame

\* C3: once an interrupt has been raised with the camera threads started,
\* eventually every capture and detection thread has ended, every device handle is released and the
\* streaming server is not running any more.
AllStopped ==
    /\ \A c \in Cams : ~CamAlive(c) /\ ~TrackerAlive(c)
    /\ \A c \in Cams : campc[c] # "unstarted" => released[c] >= 1
    /\ server # "running"

C3_ShutdownLiveness == (sigpos = "started") ~> AllStopped

\* C8: the detection thread of camera c ends only after the capture thread
\* has ended and released the device.
C8_ReleaseBeforeTrackerEnd ==
    \A c \in Cams : trkpc[c] \in {"done", "crashed"} => ~CamAlive(c) /\ released[c] >= 1

\* C9: a failed read leads to the capture thread ending with its handle
\* released, and to the detection thread being out of its loop; the handle
\* is released before the capture thread is gone.
TrackerInLoop(c) == trkpc[c] \in {"start", "loop", "get", "track", "dfull", "dget", "dput"}

C9_ReadFailureEndsPair ==
    /\ [](\A c \in Cams : campc[c] = "done" => released[c] = 1)
    /\ \A c \in CamsOf(OneCamera) :
          readfailed[c] ~> (campc[c] = "done" /\ released[c] = 1 /\ ~TrackerInLoop(c))

\* the read failed while the detection thread was waiting on the empty slot,
\* and the detection thread has returned
C9_Witness ==
    \E c \in Cams : readfailed[c] /\ nread[c] = 0 /\ frame[c] = NoFrame /\ trkpc[c] = "done"

\* C10: a publish never waits and never loses the new item: no put_nowait
\* raises Full, every step of a publish can be taken whatever the consumer
\* does, and the put leaves the new item in the queue.
NeverBlocks ==
    \A c \in Cams :
        /\ campc[c] \in {"full", "evict", "put"} => ENABLED CamStep(c)
        /\ trkpc[c] \in {"dfull", "dget", "dput"} => ENABLED TrkStep(c)

PutInserts ==
    \A c \in Cams :
        /\ (campc[c] = "put" /\ campc'[c] = "read") => q'[c] = <<camframe[c]>>
        /\ (trkpc[c] = "dput" /\ trkpc'[c] = "loop") => out_q'[c] = <<frame[c]>>

C10_PublishNeverFails ==
    /\ [](fullraised = {} /\ NeverBlocks)
    /\ [][PutInserts]_vars

\* both producers have published over an unread item
C10_Witness ==
    \E c \in Cams :
        /\ evicted[c] # {} /\ published[c] = 3
        /\ devicted[c] # {} /\ out_q[c] = <<dpublished[c]>> /\ dpublished[c] = 3

\* C4 as stated: when add_results has returned, exactly one TelemetryFrame
\* (its four fields, each once) has been sent for class 0 and for class 1.
TagCount(name, c) ==
    Cardinality({k \in 1 .. Len(sent) : sent[k].name = name /\ sent[k].cls = c})

C4_ExactlyOneFramePerClass ==
    telpc = "done" =>
        \A c \in {0, 1} : \A k \in 1 .. 4 : TagCount(FieldNames[k], c) = 1

\* C4 as amended: when add_results has returned, send_telemetry_data has been
\* called exactly once for class 0 and once for class 1, in that order; no
\* field of a class went out more than once; all four went out once when the
\* call was not cut short, and none when there was no connection.
C4_OneSendCallPerClass ==
    telpc = "done" =>
        /\ Len(calls) = 2 /\ Len(outcome) = 2
        /\ \A c \in {0, 1} :
              /\ calls[c + 1].obj_cls = c
              /\ \A k \in 1 .. 4 : TagCount(FieldNames[k], c) <= 1
              /\ outcome[c + 1] = "sent" => \A k \in 1 .. 4 : TagCount(FieldNames[k], c) = 1
              /\ outcome[c + 1] = "noconn" => \A k \in 1 .. 4 : TagCount(FieldNames[k], c) = 0

\* the connection failed for class 0 and was opened for class 1
C4_Witness == telpc = "done" /\ outcome = <<"noconn", "sent">>

\* C5: the call add_results makes for class c in {0,1} says detected iff some
\* box of class c has a confidence above 0.5; it is then computed from the
\* first box of class c that has the greatest confidence of that class, and
\* is (0, 0, c, 0, False) otherwise.  Boxes of other classes play no part.
ClassBoxes(c) ==
    {b \in (1 .. Len(results)) \X (1 .. MaxSize + 1) :
        b[2] <= Len(results[b[1]]) /\ results[b[1]][b[2]].cls = c}
ConfOf(b) == results[b[1]][b[2]].conf
Before(a, b) == a[1] < b[1] \/ (a[1] = b[1] /\ a[2] < b[2])

C5_BestPerClass ==
    \A c \in {0, 1} :
        Len(calls) >= c + 1 =>
            LET call == calls[c + 1] IN
            /\ call.obj_cls = c
            /\ call.detected <=> \E b \in ClassBoxes(c) : ConfOf(b) > 5
            /\ call.detected =>
                 \E b \in ClassBoxes(c) :
                    /\ call.x = get_x_offset_deg(b) /\ call.y = get_y_offset_deg(b)
                    /\ \A a \in ClassBoxes(c) : ConfOf(a) <= ConfOf(b)
                    /\ \A a \in ClassBoxes(c) : ConfOf(a) = ConfOf(b) => ~Before(a, b)
            /\ ~call.detected =>
                 call = [x |-> Zero, y |-> Zero, obj_cls |-> c, lat |-> Zero, detected |-> FALSE]

\* classes {0,1} at confidences {0.9, 0.3}: detected for class 0, not for class 1
C5_Witness ==
    /\ results = << << [cls |-> 0, conf |-> 9], [cls |-> 1, conf |-> 3] >> >>
    /\ telpc = "done"
    /\ calls[1].detected /\ ~calls[2].detected

\* C6: a get_signal call that drained t1..tn (n >= 1, lowercased and trimmed)
\* and ended normally returns "generate" if some ti is "generate", else
\* "picture" if some ti is "picture", else tn.
Tokens == [k \in 1 .. Len(drained) |-> StripLower(drained[k])]
Precedence(ts) ==
    IF \E k \in 1 .. Len(ts) : ts[k] = "generate" THEN "generate"
    ELSE IF \E k \in 1 .. Len(ts) : ts[k] = "picture" THEN "picture"
    ELSE ts[Len(ts)]

C7_SnapshotSpacing ==
    \A c \in Cams : prevsubmit[c] >= 0 => lastsubmit[c] - prevsubmit[c] > 10

\* a second submit has happened
C7_Witness == \E c \in Cams : prevsubmit[c] >= 0 /\ lastsubmit[c] > prevsubmit[c]

\* C11: whatever the interleaving of the detection threads' first calls, at
\* most one outbound connection object is created, and every thread sends
\* on that one object.
C11_InitializeOnce ==
    /\ created <= 1
    /\ Cardinality(UNION {used[t] : t \in Cams}) <= 1

\* C12: a detector call that fails does not end the detection thread: the
\* thread never stops on an exception.
C12_DetectorFailureNotFatal == \A c \in Cams : trkpc[c] # "crashed"

\* C13: whatever happens when connecting or sending, send_telemetry_data
\* returns to add_results, add_results returns to the detection thread, and
\* the thread goes on with the frame and takes its next one.
C13_TransportErrorsContained ==
    /\ [](telpc \in {"idle", "class", "ensure", "field", "done"})
    /\ [](Len(outcome) = Len(calls) \/ telpc \in {"ensure", "field"})
    /\ (telpc \in {"ensure", "field"}) ~> (telpc = "done")
    /\ (telpc = "done") ~> (telpc = "idle")

\* the connection was refused for class 0 and a send raised for class 1
C13_Witness == telpc = "done" /\ outcome = <<"noconn", "raised">>

\* C14: when camera c's read fails, the step changes nothing of another
\* camera and does not set is_interrupted; from then on camera c's capture
\* thread only releases its handle (once) and ends, and its detection thread
\* can always take a step until it has returned; every other started camera
\* whose device has not failed keeps its capture thread in the read/publish
\* loop and its detection thread in the detect loop.
PerCam(d) ==
    <<campc[d], nread[d], camframe[d], released[d], readfailed[d], trkpc[d], q[d],
      frame[d], out_q[d], published[d], evicted[d]>>

FailureStepIsLocal ==
    \A c \in Cams :
        (readfailed'[c] /\ ~readfailed[c]) =>
            /\ is_interrupted' = is_interrupted
            /\ \A d \in Cams \ {c} : PerCam(d)' = PerCam(d)

FailedPairEnds ==
    \A c \in Cams :
        readfailed[c] =>
            /\ campc[c] \in {"release", "done"}
            /\ released[c] = (IF campc[c] = "done" THEN 1 ELSE 0)
            /\ trkpc[c] # "done" => ENABLED CamProgress(c) \/ ENABLED TrkStepHeadless(c)
            /\ trkpc[c] = "done" => campc[c] = "done"

OthersKeepRunning ==
    \A d \in Cams :
        (campc[d] # "unstarted" /\ ~readfailed[d]) =>
            /\ campc[d] \in {"read", "full", "evict", "put"}
            /\ trkpc[d] \in {"loop", "get", "track"}

C14_FailureIsolation ==
    /\ [][FailureStepIsLocal]_vars
    /\ [](~is_interrupted /\ FailedPairEnds /\ OthersKeepRunning)

\* camera 0 failed at its first read and both its threads have ended, while
\* camera 1 is detecting on its third frame
C14_Witness ==
    /\ readfailed[0] /\ nread[0] = 0 /\ campc[0] = "done" /\ trkpc[0] = "done"
    /\ ~readfailed[1] /\ trkpc[1] = "track" /\ frame[1] = 3

\* C15: the server is stopped only once every detection thread has ended
\* having joined its capture thread; the windows are destroyed only once the
\* server is not running; the main thread is not gone while a thread runs.
AllJoined ==
    \A c \in Cams : trkpc[c] \in {"unstarted", "done"} /\ ~CamAlive(c)

C15_OrderedShutdown ==
    /\ server = "stopped" => AllJoined
    /\ windows = "destroyed" => server # "running"
    /\ mainpc \in {"done", "exited"} => AllJoined

\* C16: no device handle is released twice, and once an interrupt has
\* occurred, eventually every opened handle has been released once, the
\* server (if one was started) has been stopped and the windows destroyed.
EverythingReleased ==
    /\ \A c \in Cams : campc[c] # "unstarted" => released[c] = 1
    /\ enable_mjpeg => server = "stopped"
    /\ enable_display => windows = "destroyed"

C16_ReleasedExactlyOnce ==
    /\ [](\A c \in Cams : released[c] <= 1)
    /\ (signals > 0) ~> EverythingReleased

\* C17: the delivery of the signal changes nothing of the threads, queues,
\* server and windows, and once the handler and the except clause are
\* through, is_interrupted is true, wherever the main thread was.
SignalStepOnlyFlag ==
    signals' # signals =>
        UNCHANGED <<cameras, enable_mjpeg, enable_display, server, windows, shown,
                    camvars, trkvars, q, out_q>>

C17_HandlerOnlySetsFlag ==
    /\ [][SignalStepOnlyFlag]_vars
    /\ []((signals > 0 /\ mainpc # "handler") => is_interrupted)

\* C18: the stream entry a detection thread writes with set_frame is
\* written by that camera's thread only: once camera c has published into
\* it, no other camera's thread publishes into it.
C18_OneWriterPerStream ==
    [][(stream # <<>> /\ stream' # stream) => stream'[1] = stream[1]]_vars

\* C19: whenever get_signal returns, its result is the most relevant token
\* of the messages it drained in this call; it is empty only if nothing was
\* drained or the inbound connection could not be opened; it is "generate"
\* whenever a "generate" was drained.
C19_MostRelevantOrEmpty ==
    sigpc = "done" =>
        /\ drained # <<>> => sigresult = Precedence(Tokens)
        /\ sigresult = "" => (drained = <<>> \/ sigend = "noconn")
        /\ (\E k \in 1 .. Len(drained) : Tokens[k] = "generate") => sigresult = "generate"

\* C20 (outbound cell): a failed attempt leaves _mavlink_conn empty and the
\* call sends nothing; a call that finds the cell empty attempts to connect;
\* a call that begins after an attempt has succeeded makes no attempt.
FailedAttemptIsNoOp ==
    \A t \in Cams :
        (enspc[t] = "clear" /\ enspc'[t] = "idle") =>
            mavlink_conn' = "None" /\ used'[t] = used[t]

EmptyCellRetries ==
    \A t \in Cams :
        (enspc[t] = "check" /\ enspc'[t] # "check" /\ mavlink_conn = "None") =>
            enspc'[t] = "connect"

C20_LazyConnectRetry ==
    /\ [][FailedAttemptIsNoOp /\ EmptyCellRetries]_vars
    /\ [](\A t \in Cams : enspc[t] = "connect" => ~aftersuccess[t])

\* C22: a detection thread that leaves its loop while the flag is not set
\* does so with its capture thread ended and the slot empty.
C22_ExitOnlyWhenDrained ==
    [][\A c \in Cams :
          (trkpc[c] = "loop" /\ trkpc'[c] = "join" /\ ~is_interrupted) =>
              (~CamAlive(c) /\ q[c] = <<>>)]_vars

\* C23 as stated: no frame taken from the slot after the flag was set goes
\* on to telemetry and the stream.
C23_NoNewWorkAfterShutdown == \A c \in Cams : lateproc[c] = 0

\* C23 as amended: at most one frame taken after the flag was set goes on to
\* telemetry and the stream per detection thread, and a thread that
\* evaluates its loop condition with the flag set leaves the loop.
LoopTestObeysFlag ==
    \A c \in Cams :
        (trkpc[c] = "loop" /\ is_interrupted /\ trkpc'[c] # "loop") => trkpc'[c] = "join"

C23_AtMostOneLateFrame ==
    /\ [](\A c \in Cams : lateproc[c] <= 1)
    /\ [][LoopTestObeysFlag]_vars

\* a frame taken after the flag was set has been sent on
C23_Witness == \E c \in Cams : lateproc[c] = 1 /\ trkpc[c] = "done"

\* C24 as stated: every frame processed is written to the stream, whatever
\* the configuration.
C24_StreamAlways ==
    [][\A c \in Cams :
          (trkpc[c] = "track" /\ trkpc'[c] \in {"dfull", "loop"}) => stream' = <<c, frame[c]>>]_vars

\* C24 as amended: a processed frame is written to the stream iff
\* enable_mjpeg, and goes on to the display queue iff enable_display; with
\* enable_display False the display queue is never written.
ProcessPublishes ==
    \A c \in Cams :
        (trkpc[c] = "track" /\ trkpc'[c] \in {"dfull", "loop"}) =>
            /\ stream' = (IF enable_mjpeg THEN <<c, frame[c]>> ELSE stream)
            /\ trkpc'[c] = "dfull" <=> enable_display

DisplayPutPublishes ==
    \A c \in Cams :
        (trkpc[c] = "dput" /\ trkpc'[c] = "loop") => dpublished'[c] = frame[c]

C24_PublishByConfiguration ==
    /\ [][ProcessPublishes /\ DisplayPutPublishes]_vars
    /\ [](~enable_mjpeg => stream = <<>>)
    /\ [](~enable_display => \A c \in Cams : out_q[c] = <<>> /\ dpublished[c] = NoFrame)

\* streaming without display: the third frame is in the stream, the display
\* queue was never written
C24_Witness ==
    \E c \in Cams :
        /\ enable_mjpeg /\ ~enable_display
        /\ stream = <<c, 3>> /\ trkpc[c] = "loop" /\ dpublished[c] = NoFrame

\* C25: every frame the detection thread takes was captured after the one
\* it took before: frames are processed in capture order, none twice.
C25_CaptureOrder ==
    [][\A c \in Cams :
          (trkpc[c] = "get" /\ trkpc'[c] = "track") => frame'[c] > frame[c]]_vars

\* the detection thread has processed frame 1 and holds frame 3: frame 2
\* was skipped, not reordered
C25_Witness ==
    \E c \in Cams : trkpc[c] = "track" /\ frame[c] = 3 /\ stream = <<c, 1>>

\* C30: with the flag set, a detection thread takes at most one more frame
\* from its slot and a capture thread publishes at most one more frame.
C30_BoundedWorkAfterShutdown ==
    \A c \in Cams : latetakes[c] <= 1 /\ lateputs[c] <= 1

\* both threads did their one more after the flag was set, and have ended
C30_Witness ==
    \E c \in Cams :
        latetakes[c] = 1 /\ lateputs[c] = 1 /\ campc[c] = "done" /\ trkpc[c] = "done"

\* C26: no wait of a capture or detection thread outlasts a set flag: once
\* is_interrupted is set, a started capture thread gets out of its read and
\* its detection thread out of its wait on the slot and of its join.
C26_BoundedWaits ==
    \A c \in CamsOf(OneCamera) :
        (is_interrupted /\ campc[c] # "unstarted") ~>
            (campc[c] \in {"release", "done"} /\ trkpc[c] = "done")

\* C27 as stated: the floor is inclusive, the call for class c says detected
\* iff some box of class c has a confidence of at least 0.5.
C27_FloorInclusive ==
    \A c \in {0, 1} :
        Len(calls) >= c + 1 =>
            (calls[c + 1].detected <=> \E b \in ClassBoxes(c) : ConfOf(b) >= MIN_CONFIDENCE)

\* C27 as amended: the floor is exclusive.  A class none of whose boxes is
\* above 0.5 gets the not-detected call, boxes at exactly 0.5 included, and
\* a call that says detected was never computed from a box at or below 0.5.
C27_FloorExclusive ==
    \A c \in {0, 1} :
        Len(calls) >= c + 1 =>
            /\ (\A b \in ClassBoxes(c) : ConfOf(b) <= MIN_CONFIDENCE) => ~calls[c + 1].detected
            /\ calls[c + 1].detected =>
                  \A b \in ClassBoxes(c) :
                      calls[c + 1].x = get_x_offset_deg(b) => ConfOf(b) > MIN_CONFIDENCE

\* the only box of class 0 is at exactly 0.5: not detected
C27_Witness ==
    /\ results = << << [cls |-> 0, conf |-> 5] >> >>
    /\ telpc = "done"
    /\ ~calls[1].detected

\* C21: the display rate.  For every capture time and processing-end time
\* the rate is 1 / elapsed rounded to two decimals (within half a hundredth
\* of it) when elapsed is above the floor of 1e-6 s, and exactly 0.0 when
\* elapsed is zero, negative or at most the floor; no ZeroDivisionError is
\* raised; an elapsed time of 0.1 s gives 10.0.
C21_DisplayRate ==
    fpspc \in {"done", "raised"} =>
        LET e == end_time - start_time
            exact == 100 * TicksPerSecond
            diff == IF fps * e >= exact THEN fps * e - exact ELSE exact - fps * e
        IN  /\ ~zerodiv
            /\ fpspc = "done"
            /\ e > RateFloor => 2 * diff <= e
            /\ e <= RateFloor => fps = 0
            /\ e = TenthSecond => fps = 1000

\* a frame processed 0.1 s after its capture is drawn with 10.0
C21_Witness ==
    /\ fpspc = "done"
    /\ end_time - start_time = TenthSecond
    /\ fps = 1000

\* the ASCII characters of a string, in order
AsciiOf(s) == SelectSeq(s, LAMBDA ch : ch \in 0 .. MaxAscii)

\* the ten bytes of the tags, written out
ExpectedName(k, c) ==
    CASE k = 1 -> <<118, 105, 115, 95, 120, 48 + c, 0, 0, 0, 0>>
      [] k = 2 -> <<118, 105, 115, 95, 121, 48 + c, 0, 0, 0, 0>>
      [] k = 3 -> <<118, 105, 115, 95, 108, 97, 116, 48 + c, 0, 0>>
      [] k = 4 -> <<118, 105, 115, 95, 100, 101, 116, 48 + c, 0, 0>>

\* C28: name_bytes returns exactly 10 bytes for every string: the string's
\* ASCII characters cut to 10, then NUL bytes; the four fields of the call
\* for tracked class N carry the names vis_x<N>, vis_y<N>, vis_lat<N>,
\* vis_det<N> in that order, and no two fields sent for a frame carry the
\* same name.
C28_FieldTags ==
    /\ namepc = "done" =>
          /\ Len(name_out) = 10
          /\ \A i \in 1 .. 10 :
                name_out[i] = IF i <= Len(AsciiOf(name_in)) THEN AsciiOf(name_in)[i] ELSE 0
    /\ \A i \in 1 .. Len(wire) :
          /\ wire[i].name = ExpectedName(wire[i].k, wire[i].cls)
          /\ i > 1 /\ wire[i].k > 1 =>
                wire[i - 1].cls = wire[i].cls /\ wire[i - 1].k = wire[i].k - 1
    /\ \A i, j \in 1 .. Len(wire) : i # j => wire[i].name # wire[j].name

\* a string of more than 10 characters, one of them not ASCII, has gone
\* through name_bytes and the calls of both tracked classes have sent their
\* four fields
C28_Witness ==
    /\ namepc = "done"
    /\ Len(name_in) > 10
    /\ Len(AsciiOf(name_in)) \in 1 .. Len(name_in) - 1
    /\ Len(wire) = 4 * NUM_CLASSES

\* stamp = t (mod 2^32): t - stamp has its two lowest limbs zero
SameMod32(stamp, t) ==
    IF ~t.neg
      THEN stamp[1] = t.mag[1] /\ stamp[2] = t.mag[2]
      ELSE LET low == stamp[1] + t.mag[1]
               high == stamp[2] + t.mag[2] + (low \div LimbBase)
           IN  low % LimbBase = 0 /\ high % LimbBase = 0

\* C29: the fields of one call carry the same timestamp; it is the
\* millisecond clock the call read, modulo 2^32, and lies in [0, 2^32),
\* whatever the clock says.
C29_Timestamp ==
    \A i \in 1 .. Len(wire) :
        /\ Len(wire[i].time_boot_ms) = 2
        /\ \A l \in 1 .. 2 : wire[i].time_boot_ms[l] \in 0 .. LimbBase - 1
        /\ SameMod32(wire[i].time_boot_ms, taken[wire[i].cls])
        /\ \A j \in 1 .. Len(wire) :
              wire[j].cls = wire[i].cls => wire[j].time_boot_ms = wire[i].time_boot_ms

\* a call has sent its four fields while the clock, negative and beyond
\* 32 bits, moved on
C29_Witness ==
    \E c \in Tracked :
        /\ Cardinality({i \in 1 .. Len(wire) : wire[i].cls = c}) = 4
        /\ taken[c].neg
        /\ taken[c].mag[3] > 0
        /\ taken[c].mag[1] > 0
        /\ clock_ms # taken[c]
        /\ c \in sentcls

\* the fields of a frame in the order x, y, lat, det
EmissionOrder == <<"vis_x", "vis_y", "vis_lat", "vis_det">>
\* positions in sent of the messages of class c
SentOf(c) == {i \in 1 .. Len(sent) : sent[i].cls = c}

\* C31: within one add_results call everything sent for class 0 comes before
\* everything sent for class 1; the messages of a class are the first n of
\* x, y, lat, det in that order, n = 4 when the call sent its frame, n < 4
\* when a send raised and n = 0 when there was no connection; and whatever
\* the call for a class came to, the call for the next class is made.
C31_EmissionOrder ==
    /\ \A i, j \in 1 .. Len(sent) : (i < j) => sent[i].cls <= sent[j].cls
    /\ \A c \in 0 .. NUM_CLASSES - 1 :
          /\ Cardinality(SentOf(c)) <= 4
          /\ \A i \in SentOf(c) :
                sent[i].name = EmissionOrder[Cardinality({j \in SentOf(c) : j <= i})]
          /\ Len(outcome) >= c + 1 =>
                /\ outcome[c + 1] = "sent" => Cardinality(SentOf(c)) = 4
                /\ outcome[c + 1] = "raised" => Cardinality(SentOf(c)) < 4
                /\ outcome[c + 1] = "noconn" => Cardinality(SentOf(c)) = 0
    /\ \A k \in 1 .. Len(calls) : calls[k].obj_cls = k - 1
    /\ telpc = "done" => Len(calls) = NUM_CLASSES /\ Len(outcome) = NUM_CLASSES

\* the frame of class 0 went out with its first two fields only, the frame
\* of class 1 went out whole
C31_Witness ==
    /\ telpc = "done"
    /\ outcome = <<"raised", "sent">>
    /\ Cardinality(SentOf(0)) = 2
    /\ Cardinality(SentOf(1)) = 4

\* C32: when every detection thread has ended and no interrupt comes, the
\* main thread leaves its wait loop and goes through the joins, the server
\* stop and the release of the windows, with the display enabled or not.
C32_CoordinatorExits ==
    ((\A c \in Cams : trkpc[c] # "unstarted" /\ ~TrackerAlive(c)) /\ signals = 0)
        ~> (mainpc = "done" \/ signals > 0)

\* newest after the loop of get_signal has gone over ts, from old
RECURSIVE Replay(_, _)
Replay(ts, old) ==
    IF ts = <<>> THEN old
    ELSE Replay(Tail(ts),
                IF old # "generate" /\ (Head(ts) = "generate" \/ old # "picture")
                  THEN Head(ts) ELSE old)

\* C33: the result of a get_signal call is what the messages drained during
\* that call give when the call starts from the empty token, and nothing
\* else: not the result of an earlier poll, not anything but those messages.
C33_NoCarryOver ==
    sigpc = "done" => sigresult = Replay(Tokens, "")

\* C34: a call made while the handler is not open (never opened, open
\* failed, released) makes no call on the device and returns (False, None)
\* from read_frame, {} from get_properties, False from set_resolution and
\* set_fps; after release the handler is not open; leaving a with-block
\* releases the device the block opened.
C34_HandlerLifecycle ==
    /\ hstate # "open" => ~is_opened
    /\ wasopen # "open" =>
          /\ hmeth = "read_frame" => hret = <<"False", "None">> /\ touched = 0
          /\ hmeth = "get_properties" => hret = <<"{}">> /\ touched = 0
          /\ hmeth \in {"set_resolution", "set_fps"} => hret = <<"False">> /\ touched = 0
    /\ hmeth \in {"release", "__exit__"} => ~is_opened /\ (cap # 0 => ~capdev[cap])
    /\ hmeth = "__exit__" => cap # 0 /\ hstate = "released"

\* read_frame was called on a handler that had been opened and released
C34_Witness ==
    /\ hmeth = "read_frame"
    /\ wasopen = "released"
    /\ hret = <<"False", "None">>
    /\ ncaps > 0

\* C35: whatever the interleaving of initialize() and generate_map() calls,
\* at most one Node object is created, and initialized is true only when
\* node is not None.
C35_OneNode ==
    /\ nodes <= 1
    /\ initialized => node # 0

\* both threads have been inside the with block of initialize, one of them
\* created the Node, and a generate_map call is using it
C35_Witness ==
    /\ nodes = 1
    /\ initialized
    /\ \A t \in MapThreads : inits[t] > 0
    /\ \E t \in MapThreads : mappc[t] = "g_work"

=============================================================================
